---- MODULE Spec2Model ----
(***************************************************************************)
(* The in-memory task store of go-todo-app (models/task.go) under          *)
(* concurrent callers.  The store is a slice header over a backing array   *)
(* on the heap, a counter and a sync.RWMutex; every method is a short      *)
(* chain of steps between taking and releasing the lock.  On top of it,    *)
(* the HTTP handlers of handlers/api.go behind the routes of main.go: a    *)
(* request is a method, a path and a body, a handler runs from its method  *)
(* check through the store's method to the response it writes.             *)
(* main.go's index page is served from the file static/index.html; the     *)
(* single-file variant of the program renders it from the store's list.    *)
(* Some runs begin with a store that earlier creates have already filled.  *)
(***************************************************************************)
EXTENDS Integers, Sequences, FiniteSets, TLC

\* ------------------------------------------------------------------ bounds
MaxCalls == 4
MaxCreates == 3
MaxRequests == 3
MaxTasks == 4

\* the goroutines calling the store: two in the general runs, a third in the
\* scenarios that need it
Workers == {1, 2, 3}
Procs == {1, 2}
Titles == {"a", "b"}
IDArgs == 1..MaxCreates
\* the ints a caller may pass: negative, zero, assigned, never assigned (999)
AnyIDs == {0 - 1, 0, 1, 2, 999}

\* ------------------------------------------------------------- data model
\* type Task struct { ID int; Title string; Completed bool }
Task(id, title, completed) == [ID |-> id, Title |-> title, Completed |-> completed]

\* the IDs of a sequence of tasks
IDsOf(ts) == {ts[k].ID : k \in 1..Len(ts)}

\* the zero value of Task, what make([]Task, n) fills a new array with
ZeroTask == Task(0, "", FALSE)

\* a Go slice header: backing array address, length, capacity.
\* Address 0 is the zero-size allocation: it holds no element.
Slice(arr, len, cap) == [arr |-> arr, len |-> len, cap |-> cap]

EmptySlice == Slice(0, 0, 0)

\* the nil slice, the zero value of []Task: no array at all
NilSlice == Slice(0 - 1, 0, 0)

VARIABLES
    tasks,      \* app.tasks: the slice header of the collection
    nextID,     \* app.nextID
    mutex,      \* app.mutex: the state of the sync.RWMutex
    heap,       \* backing arrays: address -> sequence of Task (length = capacity)
    pc,         \* per caller: where it is in the method it called
    call,       \* per caller: the method and arguments of its current call
    task,       \* per caller: AddTask's local `task`, then the value returned
    idx,        \* per caller: the loop index i at which the scan matched
    tasksCopy,  \* per caller: GetTasks's local `tasksCopy`, then the slice returned
    success,    \* per caller: the bool ToggleTask/DeleteTask returned
    seq,        \* the sequential store: calls applied one at a time, in unlock order
    expect,     \* per caller: what the sequential store answered to its call
    returned,   \* per create that returned, in order: the ID returned and the title given
    seen,       \* per caller: the largest ID any create had returned when it called
    last,       \* the call that released the lock last, if it was a toggle that
                \* matched: its ID and the collection it found (id 0: it was not)
    ncalls,     \* calls started so far
    ncreates,   \* AddTask calls started so far
    ndeletes,   \* DeleteTask calls started so far
    req,        \* per goroutine: the HTTP request its handler is serving
    resp,       \* per goroutine: what its handler wrote to the ResponseWriter
    nreqs,      \* requests received so far
    static,     \* the files of the directory static/ the server runs beside
    before      \* the collection a scenario began with, to compare against

vars == <<tasks, nextID, mutex, heap, pc, call, task, idx, tasksCopy, success,
          seq, expect, returned, seen, last, ncalls, ncreates, ndeletes,
          req, resp, nreqs, static, before>>

store == <<tasks, nextID, heap>>
locals == <<task, idx, tasksCopy, success>>
ghost == <<seq, expect, returned, seen, last, before>>
counters == <<ncalls, ncreates, ndeletes>>
http == <<req, resp, nreqs, static>>

\* ------------------------------------------------------------------- heap
\* the elements a slice shows: the first len cells of its backing array
Elements(h, s) == IF s.len = 0 THEN <<>> ELSE SubSeq(h[s.arr], 1, s.len)

\* the lowest address no live array uses
Fresh(h) ==
    CHOOSE a \in 1..(Cardinality(DOMAIN h) + 1) :
        a \notin DOMAIN h /\ \A b \in 1..(a - 1) : b \in DOMAIN h

\* garbage collection: arrays no slice refers to any more are gone
Collect(h, roots) == [a \in (DOMAIN h) \cap roots |-> h[a]]

\* the new task put in front: append([]Task{t}, s...)
PrependSlice(h, s, t) ==
    LET a == Fresh(h)
        old == Elements(h, s)
    IN [heap  |-> (a :> [k \in 1..(s.len + 1) |-> IF k = 1 THEN t ELSE old[k - 1]]) @@ h,
        slice |-> Slice(a, s.len + 1, s.len + 1)]

\* append(s, t): in place when the capacity allows, else into a new array of
\* twice the capacity (1 from 0), the old array left untouched
AppendSlice(h, s, t) ==
    IF s.len < s.cap
    THEN [heap  |-> [h EXCEPT ![s.arr][s.len + 1] = t],
          slice |-> Slice(s.arr, s.len + 1, s.cap)]
    ELSE LET newcap == IF s.cap = 0 THEN 1 ELSE 2 * s.cap
             a == Fresh(h)
             old == Elements(h, s)
         IN [heap  |-> (a :> [k \in 1..newcap |->
                                 IF k <= s.len THEN old[k]
                                 ELSE IF k = s.len + 1 THEN t ELSE ZeroTask]) @@ h,
             slice |-> Slice(a, s.len + 1, newcap)]

\* removal by moving the last element into the hole: s[i] = s[len-1]; s = s[:len-1]
RemoveAtSwap(h, s, i) ==
    [heap  |-> [h EXCEPT ![s.arr][i] = h[s.arr][s.len]],
     slice |-> Slice(s.arr, s.len - 1, s.cap)]

\* a removal that cuts the collection off at i: s = s[:i]
RemoveAtTruncate(h, s, i) == [heap |-> h, slice |-> Slice(s.arr, i - 1, s.cap)]

\* append(s[:i], s[i+1:]...) with i counted from 1: the cells after i move one
\* down inside the same array, the last cell keeps its old value, len drops by 1
RemoveAt(h, s, i) ==
    [heap  |-> [h EXCEPT ![s.arr] =
                   [k \in 1..s.cap |-> IF k >= i /\ k < s.len THEN @[k + 1] ELSE @[k]]],
     slice |-> Slice(s.arr, s.len - 1, s.cap)]

\* make([]Task, n): a new zeroed array of n cells (none when n = 0)
MakeSlice(h, n) ==
    IF n = 0
    THEN [heap |-> h, slice |-> EmptySlice]
    ELSE LET a == Fresh(h)
         IN [heap  |-> (a :> [k \in 1..n |-> ZeroTask]) @@ h,
             slice |-> Slice(a, n, n)]

\* copy(dst, src): the first min(len(dst), len(src)) cells of src into dst
CopySlice(h, dst, src) ==
    LET n == IF dst.len < src.len THEN dst.len ELSE src.len
    IN IF n = 0 THEN h
       ELSE [h EXCEPT ![dst.arr] =
                [k \in 1..dst.cap |-> IF k <= n THEN h[src.arr][k] ELSE @[k]]]

\* s[i].Completed = true
FlipAtSet(h, s, i) == [h EXCEPT ![s.arr][i].Completed = TRUE]

\* every task of the collection flipped, not the one at i alone
FlipAtAll(h, s, i) ==
    [h EXCEPT ![s.arr] = [k \in 1..s.cap |->
                             IF k <= s.len THEN [@[k] EXCEPT !.Completed = ~@] ELSE @[k]]]

\* s[i].Completed = !s[i].Completed
FlipAt(h, s, i) == [h EXCEPT ![s.arr][i].Completed = ~@]

\* the ID taken for a position: s[id-1]
IndexOfPosition(h, s, id) == IF id \in 1..s.len THEN id ELSE 0

\* a scan that settles on the last task when no ID matches
IndexOfOrLast(h, s, id) ==
    LET hits == {k \in 1..s.len : h[s.arr][k].ID = id}
    IN IF hits = {} THEN s.len ELSE CHOOSE k \in hits : \A j \in hits : k <= j

\* the first index of s whose task has the ID, 0 when there is none
\* (for i := range app.tasks { if app.tasks[i].ID == id {...} })
IndexOf(h, s, id) ==
    LET hits == {k \in 1..s.len : h[s.arr][k].ID = id}
    IN IF hits = {} THEN 0 ELSE CHOOSE k \in hits : \A j \in hits : k <= j

\* ---------------------------------------------------------- sync.RWMutex
\* w: the caller holding the writers' inner mutex (0: free); pending: a writer
\* has announced itself, new readers must wait; readerCount: readers that
\* called RLock and have not yet called RUnlock; readerWait: readers the
\* announced writer still waits for; readerSem, writerSem: wake-ups posted.
NewMutex ==
    [w |-> 0, pending |-> FALSE, readerCount |-> 0, readerWait |-> 0,
     readerSem |-> 0, writerSem |-> 0]

\* a mutex that never refuses a writer
WFreeAlways(m) == TRUE

\* the writers' inner mutex can be taken
WFree(m) == m.w = 0

\* a reader that never waits for a writer
MustWaitNever(m) == FALSE

\* a reader that has just counted itself in must wait for the writer
MustWait(m) == m.pending

\* ------------------------------------------------- the sequential store
\* The same four methods run one at a time on a plain sequence: the answers a
\* caller would get if nothing ever overlapped.
SeqIndexOf(ts, id) ==
    LET hits == {k \in 1..Len(ts) : ts[k].ID = id}
    IN IF hits = {} THEN 0 ELSE CHOOSE k \in hits : \A j \in hits : k <= j

NoToggle == [id |-> 0, before |-> [tasks |-> <<>>, nextID |-> 0]]

NoAnswer == [task |-> ZeroTask, list |-> <<>>, ok |-> FALSE]

SeqApply(s, c) ==
    LET i == SeqIndexOf(s.tasks, c.id)
        t == Task(s.nextID, c.title, FALSE)
    IN CASE c.op = "AddTask" ->
              [state |-> [tasks |-> Append(s.tasks, t), nextID |-> s.nextID + 1],
               answer |-> [NoAnswer EXCEPT !.task = t]]
         [] c.op = "GetTasks" ->
              [state |-> s, answer |-> [NoAnswer EXCEPT !.list = s.tasks]]
         [] c.op = "ToggleTask" ->
              IF i = 0 THEN [state |-> s, answer |-> NoAnswer]
              ELSE [state |-> [s EXCEPT !.tasks[i].Completed = ~@],
                    answer |-> [NoAnswer EXCEPT !.ok = TRUE]]
         [] c.op = "DeleteTask" ->
              IF i = 0 THEN [state |-> s, answer |-> NoAnswer]
              ELSE [state |-> [s EXCEPT !.tasks =
                                  [k \in 1..(Len(s.tasks) - 1) |->
                                      IF k < i THEN s.tasks[k] ELSE s.tasks[k + 1]]],
                    answer |-> [NoAnswer EXCEPT !.ok = TRUE]]

\* -------------------------------------------------------------- strings
\* A Go string is a sequence of one-character strings here, so that len(s),
\* s[i:] and s[:j] are computed as Go computes them.
ApiTasks == <<"/", "a", "p", "i", "/", "t", "a", "s", "k", "s">>
ApiTasksSlash == ApiTasks \o <<"/">>
ToggleSuffix == <<"/", "t", "o", "g", "g", "l", "e">>
Root == <<"/">>
IndexPage == <<"/", "i", "n", "d", "e", "x", ".", "h", "t", "m", "l">>

\* strings.HasSuffix(s, suffix)
HasSuffix(s, suffix) ==
    Len(s) >= Len(suffix)
    /\ SubSeq(s, Len(s) - Len(suffix) + 1, Len(s)) = suffix

\* the path lies under "/api/tasks/"
UnderApiTasks(path) ==
    Len(path) >= Len(ApiTasksSlash)
    /\ SubSeq(path, 1, Len(ApiTasksSlash)) = ApiTasksSlash

\* the path ends with "/toggle"
EndsWithToggle(path) ==
    Len(path) >= Len(ToggleSuffix)
    /\ SubSeq(path, Len(path) - Len(ToggleSuffix) + 1, Len(path)) = ToggleSuffix

\* the slice expression s[from:to] with Go's 0-based bounds: it panics when
\* the bounds are not 0 <= from <= to <= len(s)
Substr(s, from, to) ==
    IF 0 <= from /\ from <= to /\ to <= Len(s)
    THEN [panic |-> FALSE, s |-> SubSeq(s, from + 1, to)]
    ELSE [panic |-> TRUE, s |-> <<>>]

Digit ==
    ("0" :> 0) @@ ("1" :> 1) @@ ("2" :> 2) @@ ("3" :> 3) @@ ("4" :> 4) @@
    ("5" :> 5) @@ ("6" :> 6) @@ ("7" :> 7) @@ ("8" :> 8) @@ ("9" :> 9)

RECURSIVE Decimal(_)
Decimal(s) ==
    IF Len(s) = 0 THEN 0
    ELSE 10 * Decimal(SubSeq(s, 1, Len(s) - 1)) + Digit[s[Len(s)]]

\* strconv.Atoi(s): an optional sign, then one or more decimal digits and
\* nothing else; anything else is an error
Atoi(s) ==
    LET signed == Len(s) > 0 /\ s[1] \in {"+", "-"}
        digits == IF signed THEN Tail(s) ELSE s
    IN IF Len(digits) = 0 \/ \E k \in 1..Len(digits) : digits[k] \notin DOMAIN Digit
       THEN [err |-> TRUE, n |-> 0]
       ELSE [err |-> FALSE,
             n |-> IF s[1] = "-" THEN 0 - Decimal(digits) ELSE Decimal(digits)]

\* ------------------------------------------------------------------ JSON
\* A request body is a sequence of JSON tokens; junk is text that is no token.
Tok(k, v) == [k |-> k, v |-> v]
LBrace == Tok("{", "")
RBrace == Tok("}", "")
Colon == Tok(":", "")
Null == Tok("null", "")
Number == Tok("number", "1")
Junk == Tok("junk", "")
Str(v) == Tok("string", v)

Scalars == {"string", "number", "null"}

\* the index of the last token of the members of an object whose next member
\* (or closing brace, when first) is expected at i; 0 on a syntax error
RECURSIVE MembersEnd(_, _, _)
MembersEnd(b, i, first) ==
    IF i > Len(b) THEN 0
    ELSE IF b[i].k = "}" THEN (IF first THEN i ELSE 0)
    ELSE IF i + 3 <= Len(b) /\ b[i].k = "string" /\ b[i + 1].k = ":"
                            /\ b[i + 2].k \in Scalars
         THEN IF b[i + 3].k = "}" THEN i + 3
              ELSE IF b[i + 3].k = "," /\ i + 4 <= Len(b) /\ b[i + 4].k # "}"
                   THEN MembersEnd(b, i + 4, FALSE)
                   ELSE 0
         ELSE 0

\* the index of the last token of the first JSON value of b; 0 when b is empty
\* or does not start with a value
ValueEnd(b) ==
    IF Len(b) = 0 THEN 0
    ELSE IF b[1].k \in Scalars THEN 1
    ELSE IF b[1].k = "{" THEN MembersEnd(b, 2, TRUE)
    ELSE 0

\* a decoder that matches no member: the struct field has no `json:"title"`
\* tag and no exported name
DecodeNoField(b) ==
    LET e == ValueEnd(b)
    IN IF e = 0 \/ b[1].k \notin {"{", "null"} THEN [err |-> TRUE, Title |-> ""]
       ELSE [err |-> FALSE, Title |-> ""]

\* json.NewDecoder(r.Body).Decode(&req) into struct{ Title string `json:"title"` }:
\* the decoder reads the first JSON value of the body and stops there, so what
\* follows that value is never looked at; null leaves the struct as it is; a
\* value that is no object, or a title that is a number, is a type error
Decode(b) ==
    LET e == ValueEnd(b)
        keys == {k \in 2..(e - 1) : (k - 2) % 4 = 0 /\ b[k].v = "title"}
        strs == {k \in keys : b[k + 2].k = "string"}
        lastStr == CHOOSE k \in strs : \A j \in strs : j <= k
    IN IF e = 0 THEN [err |-> TRUE, Title |-> ""]
       ELSE IF b[1].k = "null" THEN [err |-> FALSE, Title |-> ""]
       ELSE IF b[1].k # "{" THEN [err |-> TRUE, Title |-> ""]
       ELSE IF \E k \in keys : b[k + 2].k = "number" THEN [err |-> TRUE, Title |-> ""]
       ELSE [err |-> FALSE, Title |-> IF strs = {} THEN "" ELSE b[lastStr + 2].v]

\* -------------------------------------------------------------- requests
Request(method, path, body) == [method |-> method, path |-> path, body |-> body]

NoRequest == Request("", <<>>, <<>>)

\* what a handler has written: the status (0: nothing written), the text of
\* an http.Error, or the JSON document it encoded
Response(status, text, json) == [status |-> status, text |-> text, json |-> json]

NoJSON == [kind |-> "none", list |-> <<>>, success |-> FALSE, task |-> ZeroTask]

NoResponse == Response(0, "", NoJSON)

\* {"title": t}
TitleBody(t) == <<LBrace, Str("title"), Colon, Str(t), RBrace>>

Bodies ==
    {TitleBody("a"), TitleBody("b"), TitleBody(""),
     <<LBrace, RBrace>>,
     <<Null>>,
     <<LBrace, Str("title"), Colon, Number, RBrace>>,
     <<>>,
     <<Junk>>,
     <<LBrace, Str("title"), Colon>>,
     TitleBody("a") \o <<Junk>>}

\* what follows "/api/tasks/" in a path, before a "/toggle" if there is one
IDTexts ==
    {<<"1">>, <<"2">>, <<"9">>, <<"-", "1">>, <<"x">>, <<>>,
     <<"1", "/", "x">>}

Paths ==
    {ApiTasksSlash \o s : s \in IDTexts}
    \cup {ApiTasksSlash \o s \o ToggleSuffix : s \in IDTexts}
    \cup {ApiTasksSlash \o Tail(ToggleSuffix)}

Methods == {"GET", "POST", "PUT", "DELETE"}

Requests ==
    {Request(method, ApiTasks, <<>>) : method \in Methods \ {"POST"}}
    \cup {Request("POST", ApiTasks, b) : b \in Bodies}
    \cup {Request(method, path, <<>>) : method \in {"PUT", "DELETE"}, path \in Paths}
    \cup {Request("GET", ApiTasksSlash \o <<"1">> \o s, <<>>) : s \in {<<>>, ToggleSuffix}}
    \cup {Request("PUT", ApiTasks, b) : b \in {<<Junk>>, TitleBody("")}}
    \cup {Request("GET", ApiTasks, <<Junk>>)}

\* ------------------------------------------------------------------- Init
\* no call of the store
NoCall == [op |-> "", title |-> "", id |-> 0]

\* NewTodoApp(): tasks: make([]Task, 0), nextID: 1, a zero RWMutex
Init ==
    /\ tasks = EmptySlice
    /\ nextID = 1
    /\ mutex = NewMutex
    /\ heap = <<>>
    /\ pc = [p \in Workers |-> "Idle"]
    /\ call = [p \in Workers |-> NoCall]
    /\ task = [p \in Workers |-> ZeroTask]
    /\ idx = [p \in Workers |-> 0]
    /\ tasksCopy = [p \in Workers |-> EmptySlice]
    /\ success = [p \in Workers |-> FALSE]
    /\ seq = [tasks |-> <<>>, nextID |-> 1]
    /\ expect = [p \in Workers |-> NoAnswer]
    /\ returned = <<>>
    /\ seen = [p \in Workers |-> 0]
    /\ last = NoToggle
    /\ ncalls = 0
    /\ ncreates = 0
    /\ ndeletes = 0
    /\ req = [p \in Workers |-> NoRequest]
    /\ resp = [p \in Workers |-> NoResponse]
    /\ nreqs = 0
    /\ static = {"index.html"}
    /\ before = <<>>

\* the store after the tasks of ts were created one after the other, each by
\* app.tasks = append(app.tasks, task): the arrays outgrown are garbage
RECURSIVE FillStore(_)
FillStore(ts) ==
    IF Len(ts) = 0 THEN [heap |-> <<>>, slice |-> EmptySlice]
    ELSE LET f == FillStore(SubSeq(ts, 1, Len(ts) - 1))
             r == AppendSlice(f.heap, f.slice, ts[Len(ts)])
         IN [heap |-> Collect(r.heap, {r.slice.arr}), slice |-> r.slice]

\* A store that holds tasks already: n creates have run one after the other
\* (for i := 0; i < 10; i++ { app.AddTask(...) }) and some of the tasks have
\* been toggled once. The counters count the calls made from here on.
InitFilled ==
    \E n \in 1..MaxTasks, done \in SUBSET (1..MaxTasks) :
        LET ts == [k \in 1..n |-> Task(k, IF k % 2 = 1 THEN "a" ELSE "b", k \in done)]
            f == FillStore(ts)
        IN /\ done \subseteq 1..n
           /\ tasks = f.slice
           /\ heap = f.heap
           /\ nextID = n + 1
           /\ mutex = NewMutex
           /\ pc = [p \in Workers |-> "Idle"]
           /\ call = [p \in Workers |-> NoCall]
           /\ task = [p \in Workers |-> ZeroTask]
           /\ idx = [p \in Workers |-> 0]
           /\ tasksCopy = [p \in Workers |-> EmptySlice]
           /\ success = [p \in Workers |-> FALSE]
           /\ seq = [tasks |-> ts, nextID |-> n + 1]
           /\ expect = [p \in Workers |-> NoAnswer]
           /\ returned = [k \in 1..n |-> [id |-> k, title |-> ts[k].Title]]
           /\ seen = [p \in Workers |-> 0]
           /\ last = NoToggle
           /\ ncalls = 0
           /\ ncreates = 0
           /\ ndeletes = 0
           /\ req = [p \in Workers |-> NoRequest]
           /\ resp = [p \in Workers |-> NoResponse]
           /\ nreqs = 0
           /\ static = {"index.html"}
           /\ before = ts

\* ------------------------------------------------------------ the callers
\* the pcs of a goroutine that is not inside a call of the store
AtRest(p) ==
    pc[p] \in {"Idle", "Returned", "Mutated", "Responded", "Panicked",
               "GetTasksHandler", "AddTaskHandler", "ToggleTaskHandler",
               "DeleteTaskHandler", "MethodNotAllowed", "homeHandlerTemplate"}

\* the largest ID a create has returned so far (0: none has returned)
MaxReturned ==
    LET ids == {returned[k].id : k \in 1..Len(returned)} \cup {0}
    IN CHOOSE m \in ids : \A n \in ids : n <= m

\* a caller starts a call: its old results go out of scope
Start(p, c) ==
    /\ AtRest(p)
    /\ ncalls < MaxCalls
    /\ ncalls' = ncalls + 1
    /\ call' = [call EXCEPT ![p] = c]
    /\ pc' = [pc EXCEPT ![p] = IF c.op = "GetTasks" THEN "RLock" ELSE "Lock"]
    /\ task' = [task EXCEPT ![p] = ZeroTask]
    /\ idx' = [idx EXCEPT ![p] = 0]
    /\ tasksCopy' = [tasksCopy EXCEPT ![p] = EmptySlice]
    /\ success' = [success EXCEPT ![p] = FALSE]
    /\ heap' = Collect(heap, {tasks.arr} \cup {tasksCopy'[q].arr : q \in Workers})
    /\ expect' = [expect EXCEPT ![p] = NoAnswer]
    /\ seen' = [seen EXCEPT ![p] = MaxReturned]
    /\ UNCHANGED <<tasks, nextID, mutex, seq, returned, last, before>>

CallAdd(p) ==
    /\ ncreates < MaxCreates
    /\ \E title \in Titles : Start(p, [op |-> "AddTask", title |-> title, id |-> 0])
    /\ ncreates' = ncreates + 1
    /\ UNCHANGED <<ndeletes, http>>

CallGet(p) ==
    /\ Start(p, [op |-> "GetTasks", title |-> "", id |-> 0])
    /\ UNCHANGED <<ncreates, ndeletes, http>>

CallToggle(p) ==
    /\ \E id \in IDArgs : Start(p, [op |-> "ToggleTask", title |-> "", id |-> id])
    /\ UNCHANGED <<ncreates, ndeletes, http>>

CallDelete(p) ==
    /\ \E id \in IDArgs : Start(p, [op |-> "DeleteTask", title |-> "", id |-> id])
    /\ ndeletes' = ndeletes + 1
    /\ UNCHANGED <<ncreates, http>>

\* the caller writes into what it was handed: a field of an element of the
\* slice GetTasks returned, or a field of the Task AddTask returned
Changed(t) == {Task(t.ID + 1, "Modified", ~t.Completed)}

Mutate(p) ==
    /\ pc[p] = "Returned"
    /\ \/ /\ call[p].op = "GetTasks"
          /\ \E k \in 1..tasksCopy[p].len :
                \E t \in Changed(heap[tasksCopy[p].arr][k]) :
                    heap' = [heap EXCEPT ![tasksCopy[p].arr][k] = t]
          /\ UNCHANGED task
       \/ /\ call[p].op = "AddTask"
          /\ \E t \in Changed(task[p]) : task' = [task EXCEPT ![p] = t]
          /\ UNCHANGED heap
    /\ pc' = [pc EXCEPT ![p] = "Mutated"]
    /\ UNCHANGED <<tasks, nextID, mutex, call, idx, tasksCopy, success, ghost, counters, http>>

\* ------------------------------------------------------ taking the lock
\* the first statement after Lock() of each writing method
Body(op) ==
    CASE op = "AddTask" -> "AddBuild"
      [] op = "ToggleTask" -> "TogScan"
      [] op = "DeleteTask" -> "DelScan"

\* a Lock that does not wait for the readers inside to leave
LockNoWait(p) ==
    /\ pc[p] = "Lock"
    /\ WFree(mutex)
    /\ mutex' = [mutex EXCEPT !.w = p, !.pending = TRUE,
                              !.readerWait = @ + mutex.readerCount]
    /\ pc' = [pc EXCEPT ![p] = Body(call[p].op)]
    /\ UNCHANGED <<store, call, locals, ghost, counters, http>>

\* a Lock that prefers the readers: the writer enters only at a moment when
\* no reader is counted in, and announces nothing while it waits for one
LockPolite(p) ==
    /\ pc[p] = "Lock"
    /\ WFree(mutex)
    /\ mutex.readerCount = 0
    /\ mutex' = [mutex EXCEPT !.w = p, !.pending = TRUE]
    /\ pc' = [pc EXCEPT ![p] = Body(call[p].op)]
    /\ UNCHANGED <<store, call, locals, ghost, counters, http>>

\* app.mutex.Lock(): take the writers' mutex, announce to the readers, and
\* wait for the readers inside to leave if there are any
Lock(p) ==
    /\ pc[p] = "Lock"
    /\ WFree(mutex)
    /\ LET r == mutex.readerCount
           rw == mutex.readerWait + r
       IN /\ mutex' = [mutex EXCEPT !.w = p, !.pending = TRUE, !.readerWait = rw]
          /\ pc' = [pc EXCEPT ![p] = IF r # 0 /\ rw # 0 THEN "LockWait"
                                     ELSE Body(call[p].op)]
    /\ UNCHANGED <<store, call, locals, ghost, counters, http>>

\* the writer sleeps on writerSem until the last reader inside wakes it
LockWait(p) ==
    /\ pc[p] = "LockWait"
    /\ mutex.writerSem > 0
    /\ mutex' = [mutex EXCEPT !.writerSem = @ - 1]
    /\ pc' = [pc EXCEPT ![p] = Body(call[p].op)]
    /\ UNCHANGED <<store, call, locals, ghost, counters, http>>

\* a return that leaves the lock taken: the response is written under it
UnlockForgotten(p) ==
    /\ pc[p] = "Unlock"
    /\ pc' = [pc EXCEPT ![p] = "Returned"]
    /\ LET r == SeqApply(seq, call[p])
       IN /\ seq' = r.state
          /\ expect' = [expect EXCEPT ![p] = r.answer]
    /\ returned' = IF call[p].op = "AddTask" THEN Append(returned, [id |-> task[p].ID, title |-> call[p].title])
                   ELSE returned
    /\ last' = IF call[p].op = "ToggleTask" /\ success[p]
               THEN [id |-> call[p].id, before |-> seq]
               ELSE NoToggle
    /\ UNCHANGED <<store, mutex, call, locals, seen, before, counters, http>>

\* defer app.mutex.Unlock(), then the return: readers that queued up behind
\* this writer are all woken, the writers' mutex is released
Unlock(p) ==
    /\ pc[p] = "Unlock"
    /\ mutex' = [mutex EXCEPT !.w = 0, !.pending = FALSE,
                              !.readerSem = @ + mutex.readerCount]
    /\ pc' = [pc EXCEPT ![p] = "Returned"]
    /\ LET r == SeqApply(seq, call[p])
       IN /\ seq' = r.state
          /\ expect' = [expect EXCEPT ![p] = r.answer]
    /\ returned' = IF call[p].op = "AddTask" THEN Append(returned, [id |-> task[p].ID, title |-> call[p].title])
                   ELSE returned
    /\ last' = IF call[p].op = "ToggleTask" /\ success[p]
               THEN [id |-> call[p].id, before |-> seq]
               ELSE NoToggle
    /\ UNCHANGED <<store, call, locals, seen, before, counters, http>>

\* app.mutex.RLock(): count in; wait if a writer has announced itself
RLock(p) ==
    /\ pc[p] = "RLock"
    /\ mutex' = [mutex EXCEPT !.readerCount = @ + 1]
    /\ pc' = [pc EXCEPT ![p] = IF MustWait(mutex) THEN "RLockWait" ELSE "GetMake"]
    /\ UNCHANGED <<store, call, locals, ghost, counters, http>>

\* the reader sleeps on readerSem until the writer's Unlock wakes it
RLockWait(p) ==
    /\ pc[p] = "RLockWait"
    /\ mutex.readerSem > 0
    /\ mutex' = [mutex EXCEPT !.readerSem = @ - 1]
    /\ pc' = [pc EXCEPT ![p] = "GetMake"]
    /\ UNCHANGED <<store, call, locals, ghost, counters, http>>

\* an RUnlock that counts out and never wakes the writer waiting for it
RUnlockNoWake(p) ==
    /\ pc[p] = "RUnlock"
    /\ mutex' = IF mutex.pending
                THEN [mutex EXCEPT !.readerCount = @ - 1, !.readerWait = @ - 1]
                ELSE [mutex EXCEPT !.readerCount = @ - 1]
    /\ pc' = [pc EXCEPT ![p] = "Returned"]
    /\ LET r == SeqApply(seq, call[p])
       IN /\ seq' = r.state
          /\ expect' = [expect EXCEPT ![p] = r.answer]
    /\ last' = NoToggle
    /\ UNCHANGED <<store, call, locals, returned, seen, before, counters, http>>

\* defer app.mutex.RUnlock(), then the return: count out; the last reader an
\* announced writer waits for wakes it
RUnlock(p) ==
    /\ pc[p] = "RUnlock"
    /\ mutex' = IF mutex.pending
                THEN [mutex EXCEPT !.readerCount = @ - 1,
                                   !.readerWait = @ - 1,
                                   !.writerSem = IF mutex.readerWait - 1 = 0
                                                 THEN @ + 1 ELSE @]
                ELSE [mutex EXCEPT !.readerCount = @ - 1]
    /\ pc' = [pc EXCEPT ![p] = "Returned"]
    /\ LET r == SeqApply(seq, call[p])
       IN /\ seq' = r.state
          /\ expect' = [expect EXCEPT ![p] = r.answer]
    /\ last' = NoToggle
    /\ UNCHANGED <<store, call, locals, returned, seen, before, counters, http>>

\* ---------------------------------------------------------------- AddTask
\* the ID taken from the length of the collection instead of the counter
AddBuildFromLen(p) ==
    /\ pc[p] = "AddBuild"
    /\ task' = [task EXCEPT ![p] = Task(tasks.len + 1, call[p].title, FALSE)]
    /\ pc' = [pc EXCEPT ![p] = "AddAppend"]
    /\ UNCHANGED <<store, mutex, call, idx, tasksCopy, success, ghost, counters, http>>

\* task := Task{ID: app.nextID, Title: title, Completed: false}
AddBuild(p) ==
    /\ pc[p] = "AddBuild"
    /\ task' = [task EXCEPT ![p] = Task(nextID, call[p].title, FALSE)]
    /\ pc' = [pc EXCEPT ![p] = "AddAppend"]
    /\ UNCHANGED <<store, mutex, call, idx, tasksCopy, success, ghost, counters, http>>

\* app.tasks = append(app.tasks, task)
AddAppend(p) ==
    /\ pc[p] = "AddAppend"
    /\ LET r == AppendSlice(heap, tasks, task[p])
       IN /\ tasks' = r.slice
          /\ heap' = Collect(r.heap, {r.slice.arr} \cup {tasksCopy[q].arr : q \in Workers})
    /\ pc' = [pc EXCEPT ![p] = "AddInc"]
    /\ UNCHANGED <<nextID, mutex, call, locals, ghost, counters, http>>

\* the counter set from the length of the collection instead of incremented
AddIncFromLen(p) ==
    /\ pc[p] = "AddInc"
    /\ nextID' = tasks.len + 1
    /\ pc' = [pc EXCEPT ![p] = "Unlock"]
    /\ UNCHANGED <<tasks, heap, mutex, call, locals, ghost, counters, http>>

\* the increment left out: the counter stays where it was
AddIncForgotten(p) ==
    /\ pc[p] = "AddInc"
    /\ pc' = [pc EXCEPT ![p] = "Unlock"]
    /\ UNCHANGED <<tasks, nextID, heap, mutex, call, locals, ghost, counters, http>>

\* app.nextID++
AddInc(p) ==
    /\ pc[p] = "AddInc"
    /\ nextID' = nextID + 1
    /\ pc' = [pc EXCEPT ![p] = "Unlock"]
    /\ UNCHANGED <<tasks, heap, mutex, call, locals, ghost, counters, http>>

\* --------------------------------------------------------------- GetTasks
\* no new array: tasksCopy := app.tasks
GetMakeAlias(p) ==
    /\ pc[p] = "GetMake"
    /\ tasksCopy' = [tasksCopy EXCEPT ![p] = tasks]
    /\ pc' = [pc EXCEPT ![p] = "GetCopy"]
    /\ UNCHANGED <<store, mutex, call, task, idx, success, ghost, counters, http>>

\* no make when there is nothing to copy: var tasksCopy []Task stays nil
GetMakeNil(p) ==
    /\ pc[p] = "GetMake"
    /\ LET r == MakeSlice(heap, tasks.len)
       IN /\ tasksCopy' = [tasksCopy EXCEPT ![p] =
                              IF tasks.len = 0 THEN NilSlice ELSE r.slice]
          /\ heap' = r.heap
    /\ pc' = [pc EXCEPT ![p] = "GetCopy"]
    /\ UNCHANGED <<tasks, nextID, mutex, call, task, idx, success, ghost, counters, http>>

\* tasksCopy := make([]Task, len(app.tasks))
GetMake(p) ==
    /\ pc[p] = "GetMake"
    /\ LET r == MakeSlice(heap, tasks.len)
       IN /\ tasksCopy' = [tasksCopy EXCEPT ![p] = r.slice]
          /\ heap' = r.heap
    /\ pc' = [pc EXCEPT ![p] = "GetCopy"]
    /\ UNCHANGED <<tasks, nextID, mutex, call, task, idx, success, ghost, counters, http>>

\* copy(tasksCopy, app.tasks)
GetCopy(p) ==
    /\ pc[p] = "GetCopy"
    /\ heap' = CopySlice(heap, tasksCopy[p], tasks)
    /\ pc' = [pc EXCEPT ![p] = "RUnlock"]
    /\ UNCHANGED <<tasks, nextID, mutex, call, locals, ghost, counters, http>>

\* ------------------------------------------------------------- ToggleTask
\* for i := range app.tasks { if app.tasks[i].ID == id {
TogScan(p) ==
    /\ pc[p] = "TogScan"
    /\ LET i == IndexOf(heap, tasks, call[p].id)
       IN /\ idx' = [idx EXCEPT ![p] = i]
          /\ pc' = [pc EXCEPT ![p] = IF i = 0 THEN "Unlock" ELSE "TogFlip"]
    /\ UNCHANGED <<store, mutex, call, task, tasksCopy, success, ghost, counters, http>>

\* app.tasks[i].Completed = !app.tasks[i].Completed; return true
TogFlip(p) ==
    /\ pc[p] = "TogFlip"
    /\ heap' = FlipAt(heap, tasks, idx[p])
    /\ success' = [success EXCEPT ![p] = TRUE]
    /\ pc' = [pc EXCEPT ![p] = "Unlock"]
    /\ UNCHANGED <<tasks, nextID, mutex, call, task, idx, tasksCopy, ghost, counters, http>>

\* ------------------------------------------------------------- DeleteTask
\* the last statement turned into return true: a delete that finds nothing
\* reports success all the same
DelScanReturnTrue(p) ==
    /\ pc[p] = "DelScan"
    /\ LET i == IndexOf(heap, tasks, call[p].id)
       IN /\ idx' = [idx EXCEPT ![p] = i]
          /\ success' = [success EXCEPT ![p] = (i = 0)]
          /\ pc' = [pc EXCEPT ![p] = IF i = 0 THEN "Unlock" ELSE "DelRemove"]
    /\ UNCHANGED <<store, mutex, call, task, tasksCopy, ghost, counters, http>>

\* for i, task := range app.tasks { if task.ID == id {
DelScan(p) ==
    /\ pc[p] = "DelScan"
    /\ LET i == IndexOf(heap, tasks, call[p].id)
       IN /\ idx' = [idx EXCEPT ![p] = i]
          /\ pc' = [pc EXCEPT ![p] = IF i = 0 THEN "Unlock" ELSE "DelRemove"]
    /\ UNCHANGED <<store, mutex, call, task, tasksCopy, success, ghost, counters, http>>

\* app.tasks = append(app.tasks[:i], app.tasks[i+1:]...); return true
DelRemove(p) ==
    /\ pc[p] = "DelRemove"
    /\ LET r == RemoveAt(heap, tasks, idx[p])
       IN /\ tasks' = r.slice
          /\ heap' = r.heap
    /\ success' = [success EXCEPT ![p] = TRUE]
    /\ pc' = [pc EXCEPT ![p] = "Unlock"]
    /\ UNCHANGED <<nextID, mutex, call, task, idx, tasksCopy, ghost, counters, http>>

\* ---------------------------------------------------------- HTTP handlers
\* a dispatch by the method: PUT to the toggle handler, the rest to delete
RouteByMethod(r) ==
    IF r.path = ApiTasks
    THEN CASE r.method = "GET" -> "GetTasksHandler"
           [] r.method = "POST" -> "AddTaskHandler"
           [] OTHER -> "MethodNotAllowed"
    ELSE IF ~UnderApiTasks(r.path) THEN "homeHandler"
    ELSE IF r.method = "PUT" THEN "ToggleTaskHandler" ELSE "DeleteTaskHandler"

\* main.go: the handler a request is handed to. "/api/tasks" goes by method,
\* everything under "/api/tasks/" by the last 7 characters of the path, and
\* what no other pattern of the ServeMux matches goes to "/".
Route(r) ==
    IF r.path = ApiTasks
    THEN CASE r.method = "GET" -> "GetTasksHandler"
           [] r.method = "POST" -> "AddTaskHandler"
           [] OTHER -> "MethodNotAllowed"
    ELSE IF ~UnderApiTasks(r.path) THEN "homeHandler"
    ELSE LET tail == Substr(r.path, Len(r.path) - 7, Len(r.path))
         IN IF tail.panic THEN "Panicked"
            ELSE IF tail.s = ToggleSuffix THEN "ToggleTaskHandler"
            ELSE "DeleteTaskHandler"

\* the handlers a routed request can stand at the top of
Handlers ==
    {"GetTasksHandler", "AddTaskHandler", "ToggleTaskHandler",
     "DeleteTaskHandler", "MethodNotAllowed", "homeHandler",
     "homeHandlerTemplate"}

\* goroutine p can take a request: it serves none. Receiving and routing
\* touch nothing shared and commute with every step of the other goroutines,
\* so they are taken when no other goroutine stands between its routing and
\* the first statement of its handler.
Free(p) ==
    /\ pc[p] \in {"Idle", "Responded", "Panicked"}
    /\ \A q \in Workers : pc[q] \notin Handlers

\* a request arrives at the server and is routed
Serve(p) ==
    /\ Free(p)
    /\ nreqs < MaxRequests
    /\ nreqs' = nreqs + 1
    /\ \E r \in Requests :
          /\ req' = [req EXCEPT ![p] = r]
          /\ pc' = [pc EXCEPT ![p] = Route(r)]
    /\ resp' = [resp EXCEPT ![p] = NoResponse]
    /\ UNCHANGED <<store, mutex, call, locals, ghost, counters, static>>

\* a handler called on its own, as the handler tests do
\* (http.HandlerFunc(AddTaskHandler).ServeHTTP(rr, req)), with a request the
\* server's routes would not have handed to it
CallHandler(p) ==
    /\ Free(p)
    /\ nreqs < MaxRequests
    /\ nreqs' = nreqs + 1
    /\ \E r \in Requests, h \in {"GetTasksHandler", "AddTaskHandler"} :
          /\ r.path = ApiTasks /\ Route(r) # h
          /\ req' = [req EXCEPT ![p] = r]
          /\ pc' = [pc EXCEPT ![p] = h]
    /\ resp' = [resp EXCEPT ![p] = NoResponse]
    /\ UNCHANGED <<store, mutex, call, locals, ghost, counters, static>>

\* http.Error(w, text, status); return
Reject(p, status, text) ==
    /\ resp' = [resp EXCEPT ![p] = Response(status, text, NoJSON)]
    /\ req' = [req EXCEPT ![p] = NoRequest]
    /\ pc' = [pc EXCEPT ![p] = "Responded"]
    /\ UNCHANGED <<store, mutex, call, locals, ghost, counters, nreqs, static>>

\* a run-time panic in the handler: nothing is written, net/http recovers it
\* and closes the connection
Panic(p) ==
    /\ req' = [req EXCEPT ![p] = NoRequest]
    /\ pc' = [pc EXCEPT ![p] = "Panicked"]
    /\ UNCHANGED <<store, mutex, call, locals, ghost, counters, resp, nreqs, static>>

\* what the server is asked when the index page is in play: the page, the
\* page by its file name, and the four operations of the API
HomeRequests ==
    {Request("GET", Root, <<>>), Request("POST", Root, <<>>),
     Request("GET", IndexPage, <<>>),
     Request("GET", ApiTasks, <<>>),
     Request("POST", ApiTasks, TitleBody("a")),
     Request("PUT", ApiTasksSlash \o <<"1">> \o ToggleSuffix, <<>>),
     Request("DELETE", ApiTasksSlash \o <<"1">>, <<>>)}

ServeHome(p) ==
    /\ Free(p)
    /\ nreqs < MaxRequests
    /\ nreqs' = nreqs + 1
    /\ \E r \in HomeRequests :
          /\ req' = [req EXCEPT ![p] = r]
          /\ pc' = [pc EXCEPT ![p] = Route(r)]
    /\ resp' = [resp EXCEPT ![p] = NoResponse]
    /\ UNCHANGED <<store, mutex, call, locals, ghost, counters, static>>

\* os.Chdir(tempDir): the server finds itself beside a directory static/ that
\* holds index.html, or beside one that does not
Chdir ==
    /\ \E files \in SUBSET {"index.html"} : files # static /\ static' = files
    /\ UNCHANGED <<store, mutex, pc, call, locals, ghost, counters, req, resp, nreqs>>

\* a page compiled into the program: served whatever the directory holds
homeHandlerEmbedded(p) ==
    /\ pc[p] = "homeHandler"
    /\ resp' = [resp EXCEPT ![p] =
                   Response(200, "", [NoJSON EXCEPT !.kind = "file"])]
    /\ req' = [req EXCEPT ![p] = NoRequest]
    /\ pc' = [pc EXCEPT ![p] = "Responded"]
    /\ UNCHANGED <<store, mutex, call, locals, ghost, counters, nreqs, static>>

\* http.ServeFile(w, r, filepath.Join("static", "index.html")): a request path
\* ending in /index.html is redirected to ./; a file that cannot be opened
\* because it does not exist is a 404; else the file is the body of a 200,
\* whatever the method
homeHandler(p) ==
    /\ pc[p] = "homeHandler"
    /\ IF HasSuffix(req[p].path, IndexPage)
       THEN Reject(p, 301, "./")
       ELSE IF "index.html" \notin static
       THEN Reject(p, 404, "404 page not found")
       ELSE /\ resp' = [resp EXCEPT ![p] =
                           Response(200, "", [NoJSON EXCEPT !.kind = "file"])]
            /\ req' = [req EXCEPT ![p] = NoRequest]
            /\ pc' = [pc EXCEPT ![p] = "Responded"]
            /\ UNCHANGED <<store, mutex, call, locals, ghost, counters, nreqs, static>>

\* the handler calls a method of todoApp
Invoke(p, c) ==
    /\ Start(p, c)
    /\ ncreates' = IF c.op = "AddTask" THEN ncreates + 1 ELSE ncreates
    /\ ndeletes' = IF c.op = "DeleteTask" THEN ndeletes + 1 ELSE ndeletes
    /\ UNCHANGED http

\* a route that hands every method it does not know to the list handler's call
MethodNotAllowedAsList(p) ==
    /\ pc[p] = "MethodNotAllowed"
    /\ Invoke(p, [op |-> "GetTasks", title |-> "", id |-> 0])

\* the else branch of the "/api/tasks" route of main.go
MethodNotAllowed(p) ==
    /\ pc[p] = "MethodNotAllowed"
    /\ Reject(p, 405, "Method not allowed")

GetTasksHandler(p) ==
    /\ pc[p] = "GetTasksHandler"
    /\ IF req[p].method # "GET"
       THEN Reject(p, 405, "Method not allowed")
       ELSE Invoke(p, [op |-> "GetTasks", title |-> "", id |-> 0])

\* a create handler that does not look at the title it decoded
AddTaskHandlerAnyTitle(p) ==
    /\ pc[p] = "AddTaskHandler"
    /\ LET d == Decode(req[p].body)
       IN IF req[p].method # "POST"
          THEN Reject(p, 405, "Method not allowed")
          ELSE IF d.err
          THEN Reject(p, 400, "Invalid JSON")
          ELSE Invoke(p, [op |-> "AddTask", title |-> d.Title, id |-> 0])

\* a create handler that decodes and validates the body first and looks at
\* the method after that
AddTaskHandlerDecodeFirst(p) ==
    /\ pc[p] = "AddTaskHandler"
    /\ LET d == Decode(req[p].body)
       IN IF d.err
          THEN Reject(p, 400, "Invalid JSON")
          ELSE IF d.Title = ""
          THEN Reject(p, 400, "Title is required")
          ELSE IF req[p].method # "POST"
          THEN Reject(p, 405, "Method not allowed")
          ELSE Invoke(p, [op |-> "AddTask", title |-> d.Title, id |-> 0])

AddTaskHandler(p) ==
    /\ pc[p] = "AddTaskHandler"
    /\ LET d == Decode(req[p].body)
       IN IF req[p].method # "POST"
          THEN Reject(p, 405, "Method not allowed")
          ELSE IF d.err
          THEN Reject(p, 400, "Invalid JSON")
          ELSE IF d.Title = ""
          THEN Reject(p, 400, "Title is required")
          ELSE Invoke(p, [op |-> "AddTask", title |-> d.Title, id |-> 0])

\* idStr := r.URL.Path[len("/api/tasks/"):]
\* idStr = idStr[:len(idStr)-len("/toggle")]
ToggleTaskHandler(p) ==
    /\ pc[p] = "ToggleTaskHandler"
    /\ LET path == req[p].path
           a == Substr(path, Len(ApiTasksSlash), Len(path))
           b == Substr(a.s, 0, Len(a.s) - Len(ToggleSuffix))
           id == Atoi(b.s)
       IN IF req[p].method # "PUT"
          THEN Reject(p, 405, "Method not allowed")
          ELSE IF a.panic \/ b.panic
          THEN Panic(p)
          ELSE IF id.err
          THEN Reject(p, 400, "Invalid task ID")
          ELSE Invoke(p, [op |-> "ToggleTask", title |-> "", id |-> id.n])

\* a delete handler that does not look at the method
DeleteTaskHandlerAnyMethod(p) ==
    /\ pc[p] = "DeleteTaskHandler"
    /\ LET path == req[p].path
           a == Substr(path, Len(ApiTasksSlash), Len(path))
           id == Atoi(a.s)
       IN IF a.panic
          THEN Panic(p)
          ELSE IF id.err
          THEN Reject(p, 400, "Invalid task ID")
          ELSE Invoke(p, [op |-> "DeleteTask", title |-> "", id |-> id.n])

\* idStr := r.URL.Path[len("/api/tasks/"):]
DeleteTaskHandler(p) ==
    /\ pc[p] = "DeleteTaskHandler"
    /\ LET path == req[p].path
           a == Substr(path, Len(ApiTasksSlash), Len(path))
           id == Atoi(a.s)
       IN IF req[p].method # "DELETE"
          THEN Reject(p, 405, "Method not allowed")
          ELSE IF a.panic
          THEN Panic(p)
          ELSE IF id.err
          THEN Reject(p, 400, "Invalid task ID")
          ELSE Invoke(p, [op |-> "DeleteTask", title |-> "", id |-> id.n])

\* json.NewEncoder(w).Encode(v) of a []Task: null for the nil slice, an array
\* of the elements otherwise
EncodeTasks(h, s) ==
    IF s = NilSlice THEN [NoJSON EXCEPT !.kind = "null"]
    ELSE [NoJSON EXCEPT !.kind = "array", !.list = Elements(h, s)]

\* a response that turns the false of ToggleTask and DeleteTask into a 404
EncodeNotFound(p) ==
    /\ pc[p] = "Returned"
    /\ req[p] # NoRequest
    /\ LET json ==
              CASE call[p].op = "GetTasks" -> EncodeTasks(heap, tasksCopy[p])
                [] call[p].op = "AddTask" ->
                     [NoJSON EXCEPT !.kind = "object", !.success = TRUE,
                                    !.task = task[p]]
                [] OTHER ->
                     [NoJSON EXCEPT !.kind = "object", !.success = success[p]]
       IN resp' = [resp EXCEPT ![p] =
                      IF call[p].op \in {"ToggleTask", "DeleteTask"} /\ ~success[p]
                      THEN Response(404, "Not found", NoJSON)
                      ELSE Response(200, "", json)]
    /\ req' = [req EXCEPT ![p] = NoRequest]
    /\ pc' = [pc EXCEPT ![p] = "Responded"]
    /\ call' = [call EXCEPT ![p] = NoCall]
    /\ task' = [task EXCEPT ![p] = ZeroTask]
    /\ idx' = [idx EXCEPT ![p] = 0]
    /\ tasksCopy' = [tasksCopy EXCEPT ![p] = EmptySlice]
    /\ success' = [success EXCEPT ![p] = FALSE]
    /\ heap' = Collect(heap, {tasks.arr} \cup {tasksCopy'[q].arr : q \in Workers})
    /\ expect' = [expect EXCEPT ![p] = NoAnswer]
    /\ seen' = [seen EXCEPT ![p] = 0]
    /\ UNCHANGED <<tasks, nextID, mutex, seq, returned, last, before, counters, nreqs, static>>

\* the store's method has returned: w.Header().Set("Content-Type",
\* "application/json") and json.NewEncoder(w).Encode(...) of the result; the
\* handler returns and its locals are gone
Encode(p) ==
    /\ pc[p] = "Returned"
    /\ req[p] # NoRequest
    /\ LET json ==
              CASE call[p].op = "GetTasks" -> EncodeTasks(heap, tasksCopy[p])
                [] call[p].op = "AddTask" ->
                     [NoJSON EXCEPT !.kind = "object", !.success = TRUE,
                                    !.task = task[p]]
                [] OTHER ->
                     [NoJSON EXCEPT !.kind = "object", !.success = success[p]]
       IN resp' = [resp EXCEPT ![p] = Response(200, "", json)]
    /\ req' = [req EXCEPT ![p] = NoRequest]
    /\ pc' = [pc EXCEPT ![p] = "Responded"]
    /\ call' = [call EXCEPT ![p] = NoCall]
    /\ task' = [task EXCEPT ![p] = ZeroTask]
    /\ idx' = [idx EXCEPT ![p] = 0]
    /\ tasksCopy' = [tasksCopy EXCEPT ![p] = EmptySlice]
    /\ success' = [success EXCEPT ![p] = FALSE]
    /\ heap' = Collect(heap, {tasks.arr} \cup {tasksCopy'[q].arr : q \in Workers})
    /\ expect' = [expect EXCEPT ![p] = NoAnswer]
    /\ seen' = [seen EXCEPT ![p] = 0]
    /\ UNCHANGED <<tasks, nextID, mutex, seq, returned, last, before, counters, nreqs, static>>

\* ------------------------------------------- the single-file variant
\* The program as one file: the same store and the same create, toggle and
\* delete handlers, no list route, and an index page rendered by the server
\* from a template that is a constant of the program.
RoutePage(r) ==
    IF r.path = ApiTasks THEN "AddTaskHandler"
    ELSE IF ~UnderApiTasks(r.path) THEN "homeHandlerTemplate"
    ELSE LET tail == Substr(r.path, Len(r.path) - 7, Len(r.path))
         IN IF tail.panic THEN "Panicked"
            ELSE IF tail.s = ToggleSuffix THEN "ToggleTaskHandler"
            ELSE "DeleteTaskHandler"

PageRequests ==
    {Request("GET", Root, <<>>),
     Request("GET", ApiTasks, <<>>),
     Request("POST", ApiTasks, TitleBody("a")),
     Request("POST", ApiTasks, TitleBody("b")),
     Request("PUT", ApiTasksSlash \o <<"1">> \o ToggleSuffix, <<>>),
     Request("DELETE", ApiTasksSlash \o <<"1">>, <<>>)}

ServePage(p) ==
    /\ Free(p)
    /\ nreqs < MaxRequests
    /\ nreqs' = nreqs + 1
    /\ \E r \in PageRequests :
          /\ req' = [req EXCEPT ![p] = r]
          /\ pc' = [pc EXCEPT ![p] = RoutePage(r)]
    /\ resp' = [resp EXCEPT ![p] = NoResponse]
    /\ UNCHANGED <<store, mutex, call, locals, ghost, counters, static>>

\* tmpl, err := template.New("index").Parse(htmlTemplate): the template is a
\* constant that parses, so err is nil; tasks := todoApp.GetTasks()
homeHandlerTemplate(p) ==
    /\ pc[p] = "homeHandlerTemplate"
    /\ Invoke(p, [op |-> "GetTasks", title |-> "", id |-> 0])

\* a page rendered from the collection as it is when the page is written, not
\* from the slice list returned
ExecuteLive(p) ==
    /\ pc[p] = "Returned"
    /\ req[p] # NoRequest
    /\ call[p].op = "GetTasks"
    /\ resp' = [resp EXCEPT ![p] =
                   Response(200, "", [NoJSON EXCEPT !.kind = "html",
                                         !.list = Elements(heap, tasks)])]
    /\ req' = [req EXCEPT ![p] = NoRequest]
    /\ pc' = [pc EXCEPT ![p] = "Responded"]
    /\ call' = [call EXCEPT ![p] = NoCall]
    /\ task' = [task EXCEPT ![p] = ZeroTask]
    /\ idx' = [idx EXCEPT ![p] = 0]
    /\ tasksCopy' = [tasksCopy EXCEPT ![p] = EmptySlice]
    /\ success' = [success EXCEPT ![p] = FALSE]
    /\ heap' = Collect(heap, {tasks.arr} \cup {tasksCopy'[q].arr : q \in Workers})
    /\ expect' = [expect EXCEPT ![p] = NoAnswer]
    /\ seen' = [seen EXCEPT ![p] = 0]
    /\ UNCHANGED <<tasks, nextID, mutex, seq, returned, last, before, counters, nreqs, static>>

\* w.Header().Set("Content-Type", "text/html; charset=utf-8") and
\* tmpl.Execute(w, tasks): {{range .}} writes one item per task of the slice,
\* in its order, with its ID, title and flag
Execute(p) ==
    /\ pc[p] = "Returned"
    /\ req[p] # NoRequest
    /\ call[p].op = "GetTasks"
    /\ resp' = [resp EXCEPT ![p] =
                   Response(200, "", [NoJSON EXCEPT !.kind = "html",
                                         !.list = Elements(heap, tasksCopy[p])])]
    /\ req' = [req EXCEPT ![p] = NoRequest]
    /\ pc' = [pc EXCEPT ![p] = "Responded"]
    /\ call' = [call EXCEPT ![p] = NoCall]
    /\ task' = [task EXCEPT ![p] = ZeroTask]
    /\ idx' = [idx EXCEPT ![p] = 0]
    /\ tasksCopy' = [tasksCopy EXCEPT ![p] = EmptySlice]
    /\ success' = [success EXCEPT ![p] = FALSE]
    /\ heap' = Collect(heap, {tasks.arr} \cup {tasksCopy'[q].arr : q \in Workers})
    /\ expect' = [expect EXCEPT ![p] = NoAnswer]
    /\ seen' = [seen EXCEPT ![p] = 0]
    /\ UNCHANGED <<tasks, nextID, mutex, seq, returned, last, before, counters, nreqs, static>>

\* the responses of the create, toggle and delete handlers
EncodeResult(p) == call[p].op # "GetTasks" /\ Encode(p)

\* ------------------------------------------------------- specifications
\* Any callers, any calls, any interleaving.
Next ==
    \/ \E p \in Procs : CallAdd(p)
    \/ \E p \in Procs : CallGet(p)
    \/ \E p \in Procs : CallToggle(p)
    \/ \E p \in Procs : CallDelete(p)
    \/ \E p \in Procs : Mutate(p)
    \/ \E p \in Procs : Lock(p)
    \/ \E p \in Procs : LockWait(p)
    \/ \E p \in Procs : Unlock(p)
    \/ \E p \in Procs : RLock(p)
    \/ \E p \in Procs : RLockWait(p)
    \/ \E p \in Procs : RUnlock(p)
    \/ \E p \in Procs : AddBuild(p)
    \/ \E p \in Procs : AddAppend(p)
    \/ \E p \in Procs : AddInc(p)
    \/ \E p \in Procs : GetMake(p)
    \/ \E p \in Procs : GetCopy(p)
    \/ \E p \in Procs : TogScan(p)
    \/ \E p \in Procs : TogFlip(p)
    \/ \E p \in Procs : DelScan(p)
    \/ \E p \in Procs : DelRemove(p)

Spec == Init /\ [][Next]_vars

\* The scenario of TestAddTaskConcurrency: goroutines that only create, all at
\* once; when every create has returned (wg.Wait()), the store is listed.
Creating == \E p \in Workers : ~AtRest(p) /\ call[p].op # "GetTasks"

Listing == \E p \in Workers : call[p].op = "GetTasks"

CreateOnly(p) == ~Listing /\ CallAdd(p)

ListAfter(p) == ncreates > 0 /\ ~Creating /\ CallGet(p)

NextCreate ==
    \/ \E p \in Workers : CreateOnly(p)
    \/ \E p \in Workers : ListAfter(p)
    \/ \E p \in Workers : Lock(p)
    \/ \E p \in Workers : Unlock(p)
    \/ \E p \in Workers : AddBuild(p)
    \/ \E p \in Workers : AddAppend(p)
    \/ \E p \in Workers : AddInc(p)
    \/ \E p \in Workers : RLock(p)
    \/ \E p \in Workers : GetMake(p)
    \/ \E p \in Workers : GetCopy(p)
    \/ \E p \in Workers : RUnlock(p)

SpecCreate == Init /\ [][NextCreate]_vars

\* The scenario of TestAddTask and TestGetTasksHandlerWithTasks, with
\* toggles: creates and toggles, no delete, and then the store is listed.
ToggleOnly(p) == ~Listing /\ CallToggle(p)

NextFill ==
    \/ \E p \in Procs : CreateOnly(p)
    \/ \E p \in Procs : ToggleOnly(p)
    \/ \E p \in Procs : ListAfter(p)
    \/ \E p \in Procs : Lock(p)
    \/ \E p \in Procs : Unlock(p)
    \/ \E p \in Procs : AddBuild(p)
    \/ \E p \in Procs : AddAppend(p)
    \/ \E p \in Procs : AddInc(p)
    \/ \E p \in Procs : TogScan(p)
    \/ \E p \in Procs : TogFlip(p)
    \/ \E p \in Procs : RLock(p)
    \/ \E p \in Procs : GetMake(p)
    \/ \E p \in Procs : GetCopy(p)
    \/ \E p \in Procs : RUnlock(p)

SpecFill == Init /\ [][NextFill]_vars

\* The scenario of the not-found cases of TestToggleTask and TestDeleteTask
\* (ToggleTask(999), DeleteTask(999)): creates, and toggles and deletes with
\* any int for the ID.
CallToggleAny(p) ==
    /\ \E id \in AnyIDs : Start(p, [op |-> "ToggleTask", title |-> "", id |-> id])
    /\ UNCHANGED <<ncreates, ndeletes, http>>

CallDeleteAny(p) ==
    /\ \E id \in AnyIDs : Start(p, [op |-> "DeleteTask", title |-> "", id |-> id])
    /\ ndeletes' = ndeletes + 1
    /\ UNCHANGED <<ncreates, http>>

NextMiss ==
    \/ \E p \in Procs : CallAdd(p)
    \/ \E p \in Procs : CallToggleAny(p)
    \/ \E p \in Procs : CallDeleteAny(p)
    \/ \E p \in Procs : Lock(p)
    \/ \E p \in Procs : Unlock(p)
    \/ \E p \in Procs : AddBuild(p)
    \/ \E p \in Procs : AddAppend(p)
    \/ \E p \in Procs : AddInc(p)
    \/ \E p \in Procs : TogScan(p)
    \/ \E p \in Procs : TogFlip(p)
    \/ \E p \in Procs : DelScan(p)
    \/ \E p \in Procs : DelRemove(p)

SpecMiss == Init /\ [][NextMiss]_vars

\* The scenario of TestDeleteTaskConcurrency: on a filled store, goroutines
\* that each delete one task, no two the same, all at once, and nothing else.
Targeted == {call[p].id : p \in {q \in Workers : call[q].op = "DeleteTask"}}

CallDeleteLive(p) ==
    /\ pc[p] = "Idle"
    /\ \E id \in IDsOf(before) \ Targeted :
          Start(p, [op |-> "DeleteTask", title |-> "", id |-> id])
    /\ ndeletes' = ndeletes + 1
    /\ UNCHANGED <<ncreates, http>>

NextDelete ==
    \/ \E p \in Workers : CallDeleteLive(p)
    \/ \E p \in Workers : Lock(p)
    \/ \E p \in Workers : Unlock(p)
    \/ \E p \in Workers : DelScan(p)
    \/ \E p \in Workers : DelRemove(p)

SpecDelete == InitFilled /\ [][NextDelete]_vars

\* The scenario of TestToggleTaskConcurrency, on a filled store: goroutines
\* that toggle one and the same task, all at once and again and again, while
\* others delete tasks around it (never that one), so that it moves inside
\* the collection between two toggles.
Toggled == {call[p].id : p \in {q \in Workers : call[q].op = "ToggleTask"}}

\* the IDs a delete was ever called with
Deleted == (IDsOf(before) \ IDsOf(Elements(heap, tasks))) \cup Targeted

\* go func() { app.ToggleTask(task.ID) }()
CallToggleSame(p) ==
    /\ \E id \in IDsOf(before) \ Deleted :
          /\ Toggled \subseteq {id}
          /\ Start(p, [op |-> "ToggleTask", title |-> "", id |-> id])
    /\ UNCHANGED <<ncreates, ndeletes, http>>

\* a goroutine deletes another task before it joins the toggling ones
CallDeleteOther(p) ==
    /\ pc[p] = "Idle"
    /\ \E id \in IDsOf(before) \ Toggled :
          Start(p, [op |-> "DeleteTask", title |-> "", id |-> id])
    /\ ndeletes' = ndeletes + 1
    /\ UNCHANGED <<ncreates, http>>

NextToggle ==
    \/ \E p \in Workers : CallToggleSame(p)
    \/ \E p \in Workers : CallDeleteOther(p)
    \/ \E p \in Workers : Lock(p)
    \/ \E p \in Workers : Unlock(p)
    \/ \E p \in Workers : TogScan(p)
    \/ \E p \in Workers : TogFlip(p)
    \/ \E p \in Workers : DelScan(p)
    \/ \E p \in Workers : DelRemove(p)

\* the store the toggles begin with: its tasks all done or all not done
InitToggle == InitFilled /\ \A j, k \in 1..Len(before) : before[j].Completed = before[k].Completed

SpecToggle == InitToggle /\ [][NextToggle]_vars

\* Deletes of one and the same task: on a filled store, goroutines that each
\* call DeleteTask once, all with the ID the first of them chose, all at once.
CallDeleteSame(p) ==
    /\ pc[p] = "Idle"
    /\ \E id \in IDsOf(before) :
          /\ Targeted \subseteq {id}
          /\ Start(p, [op |-> "DeleteTask", title |-> "", id |-> id])
    /\ ndeletes' = ndeletes + 1
    /\ UNCHANGED <<ncreates, http>>

NextRace ==
    \/ \E p \in Workers : CallDeleteSame(p)
    \/ \E p \in Workers : Lock(p)
    \/ \E p \in Workers : Unlock(p)
    \/ \E p \in Workers : DelScan(p)
    \/ \E p \in Workers : DelRemove(p)

SpecRace == InitFilled /\ [][NextRace]_vars

\* A list kept while the store goes on: on a filled store no task of which
\* was toggled, one goroutine lists once and keeps the slice it was handed;
\* the other creates, toggles and deletes, before, during and after that list.
InitKept == InitFilled /\ \A k \in 1..Len(before) : ~before[k].Completed

Keeper == 1

Writers == Procs \ {Keeper}

KeepList(p) == pc[p] = "Idle" /\ CallGet(p)

NextKeep ==
    \/ KeepList(Keeper)
    \/ \E p \in Writers : CallAdd(p)
    \/ \E p \in Writers : CallToggle(p)
    \/ \E p \in Writers : CallDelete(p)
    \/ \E p \in Procs : Lock(p)
    \/ \E p \in Procs : LockWait(p)
    \/ \E p \in Procs : Unlock(p)
    \/ \E p \in Procs : RLock(p)
    \/ \E p \in Procs : RLockWait(p)
    \/ \E p \in Procs : RUnlock(p)
    \/ \E p \in Procs : AddBuild(p)
    \/ \E p \in Procs : AddAppend(p)
    \/ \E p \in Procs : AddInc(p)
    \/ \E p \in Procs : GetMake(p)
    \/ \E p \in Procs : GetCopy(p)
    \/ \E p \in Procs : TogScan(p)
    \/ \E p \in Procs : TogFlip(p)
    \/ \E p \in Procs : DelScan(p)
    \/ \E p \in Procs : DelRemove(p)

SpecKeep == InitKept /\ [][NextKeep]_vars

\* Fair scheduling: three goroutines, a finite number of calls of the four
\* methods; a goroutine whose next statement can run is eventually run.
Step(p) ==
    \/ Lock(p) \/ LockWait(p) \/ Unlock(p)
    \/ RLock(p) \/ RLockWait(p) \/ RUnlock(p)
    \/ AddBuild(p) \/ AddAppend(p) \/ AddInc(p)
    \/ GetMake(p) \/ GetCopy(p)
    \/ TogScan(p) \/ TogFlip(p)
    \/ DelScan(p) \/ DelRemove(p)

\* one call of each method: create "a", list, toggle 1, delete 1
FairCalls ==
    {[op |-> "AddTask", title |-> "a", id |-> 0],
     [op |-> "GetTasks", title |-> "", id |-> 0],
     [op |-> "ToggleTask", title |-> "", id |-> 1],
     [op |-> "DeleteTask", title |-> "", id |-> 1]}

CallFair(p) ==
    /\ \E c \in FairCalls : Start(p, c)
    /\ UNCHANGED <<ncreates, ndeletes, http>>

NextFair ==
    \/ \E p \in Workers : CallFair(p)
    \/ \E p \in Workers : Lock(p)
    \/ \E p \in Workers : LockWait(p)
    \/ \E p \in Workers : Unlock(p)
    \/ \E p \in Workers : RLock(p)
    \/ \E p \in Workers : RLockWait(p)
    \/ \E p \in Workers : RUnlock(p)
    \/ \E p \in Workers : AddBuild(p)
    \/ \E p \in Workers : AddAppend(p)
    \/ \E p \in Workers : AddInc(p)
    \/ \E p \in Workers : GetMake(p)
    \/ \E p \in Workers : GetCopy(p)
    \/ \E p \in Workers : TogScan(p)
    \/ \E p \in Workers : TogFlip(p)
    \/ \E p \in Workers : DelScan(p)
    \/ \E p \in Workers : DelRemove(p)

SpecFair == Init /\ [][NextFair]_vars /\ \A p \in Workers : WF_vars(Step(p))

\* Readers without end: two goroutines that call GetTasks again and again,
\* overlapping as they please, and one that makes a finite number of
\* creates, toggles and deletes among them; fair scheduling as above.
Listers == Procs

Writing == Workers \ Procs

\* one more list call; the calls of the listers are not counted
ListAgain(p) ==
    /\ AtRest(p)
    /\ call' = [call EXCEPT ![p] = [op |-> "GetTasks", title |-> "", id |-> 0]]
    /\ pc' = [pc EXCEPT ![p] = "RLock"]
    /\ task' = [task EXCEPT ![p] = ZeroTask]
    /\ idx' = [idx EXCEPT ![p] = 0]
    /\ tasksCopy' = [tasksCopy EXCEPT ![p] = EmptySlice]
    /\ success' = [success EXCEPT ![p] = FALSE]
    /\ heap' = Collect(heap, {tasks.arr} \cup {tasksCopy'[q].arr : q \in Workers})
    /\ expect' = [expect EXCEPT ![p] = NoAnswer]
    /\ seen' = [seen EXCEPT ![p] = MaxReturned]
    /\ UNCHANGED <<tasks, nextID, mutex, seq, returned, last, before, counters, http>>

CallWrite(p) ==
    /\ \E c \in FairCalls : c.op # "GetTasks" /\ Start(p, c)
    /\ UNCHANGED <<ncreates, ndeletes, http>>

NextStarve ==
    \/ \E p \in Listers : ListAgain(p)
    \/ \E p \in Writing : CallWrite(p)
    \/ \E p \in Writing : Lock(p)
    \/ \E p \in Writing : LockWait(p)
    \/ \E p \in Writing : Unlock(p)
    \/ \E p \in Listers : RLock(p)
    \/ \E p \in Listers : RLockWait(p)
    \/ \E p \in Listers : RUnlock(p)
    \/ \E p \in Writing : AddBuild(p)
    \/ \E p \in Writing : AddAppend(p)
    \/ \E p \in Writing : AddInc(p)
    \/ \E p \in Listers : GetMake(p)
    \/ \E p \in Listers : GetCopy(p)
    \/ \E p \in Writing : TogScan(p)
    \/ \E p \in Writing : TogFlip(p)
    \/ \E p \in Writing : DelScan(p)
    \/ \E p \in Writing : DelRemove(p)

SpecStarve == Init /\ [][NextStarve]_vars /\ \A p \in Workers : WF_vars(Step(p))

\* The server: two goroutines serving any requests, each handler running
\* from its method check to the response it writes.
NextHTTP ==
    \/ \E p \in Procs : Serve(p)
    \/ \E p \in Procs : CallHandler(p)
    \/ \E p \in Procs : MethodNotAllowed(p)
    \/ \E p \in Procs : GetTasksHandler(p)
    \/ \E p \in Procs : AddTaskHandler(p)
    \/ \E p \in Procs : ToggleTaskHandler(p)
    \/ \E p \in Procs : DeleteTaskHandler(p)
    \/ \E p \in Procs : Encode(p)
    \/ \E p \in Procs : Lock(p)
    \/ \E p \in Procs : LockWait(p)
    \/ \E p \in Procs : Unlock(p)
    \/ \E p \in Procs : RLock(p)
    \/ \E p \in Procs : RLockWait(p)
    \/ \E p \in Procs : RUnlock(p)
    \/ \E p \in Procs : AddBuild(p)
    \/ \E p \in Procs : AddAppend(p)
    \/ \E p \in Procs : AddInc(p)
    \/ \E p \in Procs : GetMake(p)
    \/ \E p \in Procs : GetCopy(p)
    \/ \E p \in Procs : TogScan(p)
    \/ \E p \in Procs : TogFlip(p)
    \/ \E p \in Procs : DelScan(p)
    \/ \E p \in Procs : DelRemove(p)

SpecHTTP == Init /\ [][NextHTTP]_vars

\* The single-file variant serving its page and its three operations.
NextPage ==
    \/ \E p \in Procs : ServePage(p)
    \/ \E p \in Procs : homeHandlerTemplate(p)
    \/ \E p \in Procs : Execute(p)
    \/ \E p \in Procs : AddTaskHandler(p)
    \/ \E p \in Procs : ToggleTaskHandler(p)
    \/ \E p \in Procs : DeleteTaskHandler(p)
    \/ \E p \in Procs : EncodeResult(p)
    \/ \E p \in Procs : Lock(p)
    \/ \E p \in Procs : LockWait(p)
    \/ \E p \in Procs : Unlock(p)
    \/ \E p \in Procs : RLock(p)
    \/ \E p \in Procs : RLockWait(p)
    \/ \E p \in Procs : RUnlock(p)
    \/ \E p \in Procs : AddBuild(p)
    \/ \E p \in Procs : AddAppend(p)
    \/ \E p \in Procs : AddInc(p)
    \/ \E p \in Procs : GetMake(p)
    \/ \E p \in Procs : GetCopy(p)
    \/ \E p \in Procs : TogScan(p)
    \/ \E p \in Procs : TogFlip(p)
    \/ \E p \in Procs : DelScan(p)
    \/ \E p \in Procs : DelRemove(p)

SpecPage == Init /\ [][NextPage]_vars

\* The server with its index page: the requests of a browser showing the
\* page, while the directory static/ may or may not hold index.html.
NextHome ==
    \/ \E p \in Procs : ServeHome(p)
    \/ Chdir
    \/ \E p \in Procs : homeHandler(p)
    \/ \E p \in Procs : GetTasksHandler(p)
    \/ \E p \in Procs : AddTaskHandler(p)
    \/ \E p \in Procs : ToggleTaskHandler(p)
    \/ \E p \in Procs : DeleteTaskHandler(p)
    \/ \E p \in Procs : Encode(p)
    \/ \E p \in Procs : Lock(p)
    \/ \E p \in Procs : LockWait(p)
    \/ \E p \in Procs : Unlock(p)
    \/ \E p \in Procs : RLock(p)
    \/ \E p \in Procs : RLockWait(p)
    \/ \E p \in Procs : RUnlock(p)
    \/ \E p \in Procs : AddBuild(p)
    \/ \E p \in Procs : AddAppend(p)
    \/ \E p \in Procs : AddInc(p)
    \/ \E p \in Procs : GetMake(p)
    \/ \E p \in Procs : GetCopy(p)
    \/ \E p \in Procs : TogScan(p)
    \/ \E p \in Procs : TogFlip(p)
    \/ \E p \in Procs : DelScan(p)
    \/ \E p \in Procs : DelRemove(p)

SpecHome == Init /\ [][NextHome]_vars

\* ================================================================ claims
\* what the collection holds: the elements of app.tasks, in order
Live == Elements(heap, tasks)

Got(p, op) == pc[p] = "Returned" /\ call[p].op = op

\* p is between Lock() and Unlock() of a writing method
InWrite(p) ==
    pc[p] \in {"AddBuild", "AddAppend", "AddInc", "TogScan", "TogFlip",
               "DelScan", "DelRemove", "Unlock"}

\* p is between RLock() and RUnlock() of GetTasks
InRead(p) == pc[p] \in {"GetMake", "GetCopy", "RUnlock"}

\* C1: from a fresh store, when N concurrent creates and nothing else have all
\* returned, the IDs returned are pairwise distinct and are exactly 1..N, and a
\* list made then returns exactly N tasks carrying exactly those IDs.
C1_ConcurrentCreateIDs ==
    Len(returned) = ncreates =>
        /\ \A j, k \in 1..Len(returned) : j # k => returned[j].id # returned[k].id
        /\ {returned[k].id : k \in 1..Len(returned)} = 1..ncreates
        /\ \A p \in Workers :
              Got(p, "GetTasks") =>
                  /\ tasksCopy[p].len = ncreates
                  /\ IDsOf(Elements(heap, tasksCopy[p])) = 1..ncreates

\* three creates were all called before any returned, and the list has them
C1_Witness ==
    /\ Len(returned) = 3
    /\ \E p, q \in Workers :
          /\ Got(p, "AddTask") /\ task[p].ID = 3 /\ seen[p] = 0
          /\ Got(q, "GetTasks") /\ tasksCopy[q].len = 3

\* C2: an ID is never reused: every create returns an ID greater than every ID
\* returned by a create that had completed when it was called, also when the
\* tasks holding those IDs have been deleted since.
C2_IDNeverReused ==
    /\ \A p \in Procs : Got(p, "AddTask") => task[p].ID > seen[p]
    /\ \A j, k \in 1..Len(returned) : j < k => returned[j].id < returned[k].id

\* a create returned 2 into an array of one cell: task 1, the most recently
\* created, had been deleted and had left its cell free
C2_Witness ==
    \E p \in Procs :
        /\ Got(p, "AddTask") /\ task[p].ID = 2 /\ seen[p] = 1
        /\ ndeletes > 0 /\ tasks.cap = 1 /\ IDsOf(Live) = {2}

C4_Atomic ==
    /\ \A p \in Procs :
          /\ Got(p, "AddTask") => task[p] = expect[p].task
          /\ Got(p, "GetTasks") => Elements(heap, tasksCopy[p]) = expect[p].list
          /\ Got(p, "ToggleTask") => success[p] = expect[p].ok
          /\ Got(p, "DeleteTask") => success[p] = expect[p].ok
    /\ (\A p \in Procs : ~InWrite(p)) => Live = seq.tasks /\ nextID = seq.nextID

\* a create called before anything had returned got ID 2, and a list called
\* after ID 1 had been returned still found one task only: the calls overlapped
C4_Witness ==
    \E p, q \in Procs :
        /\ Got(q, "AddTask") /\ task[q].ID = 2 /\ seen[q] = 0
        /\ Got(p, "GetTasks") /\ tasksCopy[p].len = 1 /\ seen[p] = 1

\* C5: a writer inside its critical section excludes every other writer and
\* every reader, and holds the exclusive lock from its first statement to its
\* return; readers do not exclude each other.
C5_LockPolicy ==
    \A p \in Procs :
        InWrite(p) =>
            /\ mutex.w = p /\ mutex.pending
            /\ \A q \in Procs \ {p} : ~InWrite(q) /\ ~InRead(q)

\* two list calls are inside their critical sections at the same time
C5_Witness == \E p, q \in Procs : p # q /\ InRead(p) /\ InRead(q)

\* C6: on a store where N creates have completed and no delete was called, a
\* list returns exactly N tasks, in the order in which the creates took
\* effect, each with the ID its create returned and the title it was given.
C6_ListInCreationOrder ==
    \A p \in Procs :
        Got(p, "GetTasks") =>
            LET l == Elements(heap, tasksCopy[p])
            IN /\ Len(l) = Len(returned)
               /\ \A k \in 1..Len(l) :
                     l[k].ID = returned[k].id /\ l[k].Title = returned[k].title

\* two creates with titles b and a, the second task toggled, and the list of them
C6_Witness ==
    \E p \in Procs :
        /\ Got(p, "GetTasks") /\ tasksCopy[p].len = 2
        /\ LET l == Elements(heap, tasksCopy[p])
           IN /\ <<l[1].Title, l[2].Title>> = <<"b", "a">>
              /\ l[2].Completed

\* a step that leaves the store as it is: the slice header, the counter, the
\* backing array and so the collection
StoreUnchanged ==
    /\ tasks' = tasks
    /\ nextID' = nextID
    /\ Elements(heap', tasks') = Elements(heap, tasks)
    /\ tasks.arr # 0 => heap'[tasks.arr] = heap[tasks.arr]

\* C7: what the store hands out is a copy: a caller writing into an element of
\* a slice list returned, or into the task create returned, leaves the store
\* unchanged, and every list returns the collection of the sequential store,
\* which no caller's write reaches.
C7_CopiesIndependent ==
    /\ [](\A p \in Procs :
             Got(p, "GetTasks") => Elements(heap, tasksCopy[p]) = expect[p].list)
    /\ [][\A p \in Procs :
             (pc[p] = "Returned" /\ pc'[p] = "Mutated") => StoreUnchanged]_vars

\* a caller has written into a list of two tasks, the other into its created task
C7_Witness ==
    \E p, q \in Procs :
        /\ pc[p] = "Mutated" /\ call[p].op = "GetTasks" /\ tasksCopy[p].len = 2
        /\ pc[q] = "Mutated" /\ call[q].op = "AddTask"

\* C8: toggle(id) with id matching a live task returns true and flips the
\* completed flag of exactly that task: its ID and title, every other task,
\* the order and length of the collection and nextID are unchanged.
C8_ToggleFrame ==
    [][\A p \in Procs :
          /\ (pc[p] = "TogScan" /\ pc'[p] # "TogScan") =>
                /\ StoreUnchanged
                /\ call[p].id \in IDsOf(Live) => pc'[p] = "TogFlip"
          /\ (pc[p] = "TogFlip" /\ pc'[p] # "TogFlip") =>
                /\ success'[p]
                /\ tasks' = tasks /\ nextID' = nextID
                /\ Cardinality({k \in 1..Len(Live) : Live[k].ID = call[p].id}) = 1
                /\ Elements(heap', tasks') =
                      [k \in 1..Len(Live) |->
                          IF Live[k].ID = call[p].id
                          THEN [Live[k] EXCEPT !.Completed = ~@] ELSE Live[k]]
          /\ (pc[p] = "Unlock" /\ call[p].op = "ToggleTask" /\ pc'[p] # "Unlock") =>
                StoreUnchanged /\ success'[p] = success[p]]_vars

\* toggle(2) returned true on a store of tasks 1 and 2: 2 is completed, 1 is not
C8_Witness ==
    \E p \in Procs :
        /\ Got(p, "ToggleTask") /\ call[p].id = 2 /\ success[p]
        /\ Len(Live) = 2 /\ ~Live[1].Completed /\ Live[2].Completed

\* C9: toggle is an involution: when a toggle that matched is followed, with
\* no other call in between, by a toggle of the same ID, the second returns
\* true too and leaves the store (tasks, order, nextID) as it was before the
\* first.
C9_ToggleTwice ==
    \A p \in Procs :
        (pc[p] = "Unlock" /\ call[p].op = "ToggleTask"
                          /\ last.id # 0 /\ last.id = call[p].id) =>
            /\ success[p]
            /\ Live = last.before.tasks
            /\ nextID = last.before.nextID

\* the second toggle of task 2 in a row, on a store of two tasks
C9_Witness ==
    \E p \in Procs :
        /\ pc[p] = "Unlock" /\ call[p].op = "ToggleTask"
        /\ last.id = 2 /\ call[p].id = 2 /\ Len(Live) = 2

\* C10: delete(id) with id matching a live task returns true and removes
\* exactly that entry: the collection is one shorter, the other tasks keep
\* their order, IDs, titles and flags, and nextID is unchanged.
C10_DeleteRemovesOne ==
    [][\A p \in Procs :
          /\ (pc[p] = "DelScan" /\ pc'[p] # "DelScan") =>
                /\ StoreUnchanged
                /\ call[p].id \in IDsOf(Live) => pc'[p] = "DelRemove"
          /\ (pc[p] = "DelRemove" /\ pc'[p] # "DelRemove") =>
                /\ success'[p]
                /\ nextID' = nextID
                /\ Cardinality({k \in 1..Len(Live) : Live[k].ID = call[p].id}) = 1
                /\ LET i == CHOOSE k \in 1..Len(Live) : Live[k].ID = call[p].id
                   IN Elements(heap', tasks') =
                         [k \in 1..(Len(Live) - 1) |->
                             IF k < i THEN Live[k] ELSE Live[k + 1]]
          /\ (pc[p] = "Unlock" /\ call[p].op = "DeleteTask" /\ pc'[p] # "Unlock") =>
                StoreUnchanged /\ success'[p] = success[p]]_vars

\* delete(1) returned true on a store of tasks 1, 2, 3: tasks 2 and 3 are left,
\* in that order
C10_Witness ==
    \E p \in Procs :
        /\ Got(p, "DeleteTask") /\ call[p].id = 1 /\ success[p]
        /\ Len(Live) = 2 /\ Live[1].ID = 2 /\ Live[2].ID = 3

\* C11: toggle(id) and delete(id) with an id that matches no live task (never
\* assigned, already deleted, zero or negative) return false, and no step of
\* such a call changes the store: tasks, their order and flags, and nextID.
C11_NotFound ==
    [][\A p \in Procs :
          /\ (pc[p] \in {"TogScan", "DelScan"} /\ pc'[p] # pc[p]
                  /\ call[p].id \notin IDsOf(Live)) =>
                /\ pc'[p] = "Unlock" /\ ~success'[p]
                /\ StoreUnchanged
          /\ (pc[p] = "Unlock" /\ call[p].op \in {"ToggleTask", "DeleteTask"}
                  /\ ~success[p] /\ pc'[p] # "Unlock") =>
                /\ pc'[p] = "Returned" /\ ~success'[p]
                /\ StoreUnchanged
          /\ (AtRest(p) /\ pc'[p] = "Lock") => StoreUnchanged
          /\ (pc[p] = "Lock" /\ pc'[p] # "Lock") => StoreUnchanged]_vars

\* delete(1) returned false after task 1, the only one created, was deleted,
\* and toggle(-1) returned false
C11_Witness ==
    \E p, q \in Procs :
        /\ Got(p, "DeleteTask") /\ call[p].id = 1 /\ ~success[p]
        /\ Got(q, "ToggleTask") /\ call[q].id = 0 - 1 /\ ~success[q]
        /\ nextID = 2 /\ Len(Live) = 0

\* C12: under fair scheduling every call acquires the lock, returns and so
\* releases it; and whenever some call is in progress, some call in progress
\* can take its next step (no deadlock).
C12_Progress ==
    /\ []((\E p \in Workers : ~AtRest(p)) =>
             (\E p \in Workers : ~AtRest(p) /\ ENABLED Step(p)))
    /\ [][\A p \in Workers :
             (~AtRest(p) /\ AtRest(p)') =>
                 /\ InWrite(p) \/ InRead(p)
                 /\ mutex'.w # p]_vars
    /\ \A p \in Workers : (~AtRest(p)) ~> AtRest(p)

\* a writer sleeps until the reader inside leaves, while a reader sleeps
\* behind that writer
C12_Witness ==
    \E p, q, r \in Workers :
        /\ pc[p] = "LockWait" /\ pc[q] = "RLockWait" /\ InRead(r)

\* ------------------------------------------------ claims on the handlers
\* the body is one JSON value and nothing else
IsJSON(b) == Len(b) > 0 /\ ValueEnd(b) = Len(b)

\* the values of the "title" members of a JSON object b
TitleValues(b) ==
    IF b[1].k # "{" THEN {}
    ELSE {b[k + 2] : k \in {j \in 2..(Len(b) - 1) : (j - 2) % 4 = 0 /\ b[j].v = "title"}}

\* goroutine p steps from the top of handler h to wherever the handler goes
Enters(p, h) == pc[p] = h /\ pc'[p] # h

\* the step answers with the status and neither touches nor calls the store
Refused(p, status) ==
    /\ pc'[p] = "Responded"
    /\ resp'[p].status = status
    /\ StoreUnchanged
    /\ mutex' = mutex /\ ncalls' = ncalls

\* C13: a POST to the create handler whose JSON body has an empty title or
\* none is answered 400 and never reaches the store: the collection and nextID
\* are unchanged; and the k-th create that succeeds gets ID k, however many
\* requests were rejected before it.
C13_EmptyTitle ==
    /\ [][\A p \in Procs :
             (Enters(p, "AddTaskHandler") /\ req[p].method = "POST"
                 /\ IsJSON(req[p].body)
                 /\ TitleValues(req[p].body) \subseteq {Str("")}) =>
                   Refused(p, 400)]_vars
    /\ [](\A k \in 1..Len(returned) : returned[k].id = k)

\* a POST with the empty title was answered "Title is required", and of the
\* two requests received the other was a create, answered with ID 1
C13_Witness ==
    \E p, q \in Procs :
        /\ resp[p] = Response(400, "Title is required", NoJSON)
        /\ resp[q].status = 200 /\ resp[q].json.task.ID = 1
        /\ nreqs = 2 /\ nextID = 2

\* the text of the path between the "/api/tasks/" in front and the "/toggle"
\* at the end; no text when the two leave no room for any
IDSegment(path) ==
    SubSeq(path, Len(ApiTasksSlash) + 1, Len(path) - Len(ToggleSuffix))

\* C14: every PUT on a path under /api/tasks/ that ends with /toggle, whose
\* text between that prefix and that suffix does not parse as an integer
\* (non-numeric, empty, or no ID segment at all as in /api/tasks/toggle), is
\* handed to the toggle handler and answered 400 with the store unchanged.
C14_ToggleBadID ==
    [][\A p \in Procs :
          /\ (Free(p) /\ ~Free(p)' /\ UnderApiTasks(req'[p].path)
                  /\ EndsWithToggle(req'[p].path)) =>
                pc'[p] = "ToggleTaskHandler"
          /\ (Enters(p, "ToggleTaskHandler") /\ req[p].method = "PUT"
                  /\ Atoi(IDSegment(req[p].path)).err) =>
                Refused(p, 400)]_vars

\* the text of the path after the "/api/tasks/" in front
Trailing(path) == SubSeq(path, Len(ApiTasksSlash) + 1, Len(path))

\* C15: malformed input never reaches the store: a POST to the create handler
\* whose body is not parseable JSON, and a DELETE handed to the delete handler
\* (a path under /api/tasks/ not ending with /toggle) whose text after the
\* prefix is not an integer, are answered 400 with the store, nextID
\* included, unchanged.
C15_Malformed ==
    [][\A p \in Procs :
          /\ (Enters(p, "AddTaskHandler") /\ req[p].method = "POST"
                  /\ ~IsJSON(req[p].body)) =>
                Refused(p, 400)
          /\ (Enters(p, "DeleteTaskHandler") /\ req[p].method = "DELETE"
                  /\ Atoi(Trailing(req[p].path)).err) =>
                Refused(p, 400)]_vars

\* the method each handler serves
OwnMethod ==
    [h \in {"GetTasksHandler", "AddTaskHandler", "ToggleTaskHandler",
            "DeleteTaskHandler"} |->
        CASE h = "GetTasksHandler" -> "GET"
          [] h = "AddTaskHandler" -> "POST"
          [] h = "ToggleTaskHandler" -> "PUT"
          [] h = "DeleteTaskHandler" -> "DELETE"]

\* C16: method mismatch never reaches the store: the list handler called
\* with a method other than GET, the create handler with one other than POST,
\* the toggle handler with one other than PUT and the delete handler with one
\* other than DELETE each answer 405 and leave the store unchanged.
C16_MethodMismatch ==
    [][\A p \in Procs : \A h \in DOMAIN OwnMethod :
          (Enters(p, h) /\ req[p].method # OwnMethod[h]) =>
              /\ Refused(p, 405)
              /\ resp'[p].text = "Method not allowed"]_vars

\* with one task live, one goroutine has been answered 405 and the other
\* stands at the top of the toggle handler with a DELETE for the live task
C16_Witness ==
    \E p, q \in Procs :
        /\ p # q /\ Len(Live) = 1
        /\ resp[q] = Response(405, "Method not allowed", NoJSON)
        /\ pc[p] = "ToggleTaskHandler" /\ req[p].method = "DELETE"
        /\ Atoi(IDSegment(req[p].path)).n = 1

\* the JSON document {"success": ok}
SuccessJSON(ok) == [NoJSON EXCEPT !.kind = "object", !.success = ok]

\* C17: a PUT handed to the toggle handler and a DELETE handed to the delete
\* handler with an integer ID call the store with that ID; when the ID
\* matches no live task the store is left unchanged and the answer is 200
\* with success false, when it matches one the answer is 200 with success
\* true.
C17_NotFoundIsNoError ==
    [][\A p \in Procs :
          /\ (Enters(p, "ToggleTaskHandler") /\ req[p].method = "PUT"
                  /\ ~Atoi(IDSegment(req[p].path)).err) =>
                /\ pc'[p] = "Lock"
                /\ call'[p] = [op |-> "ToggleTask", title |-> "",
                               id |-> Atoi(IDSegment(req[p].path)).n]
          /\ (Enters(p, "DeleteTaskHandler") /\ req[p].method = "DELETE"
                  /\ ~Atoi(Trailing(req[p].path)).err) =>
                /\ pc'[p] = "Lock"
                /\ call'[p] = [op |-> "DeleteTask", title |-> "",
                               id |-> Atoi(Trailing(req[p].path)).n]
          /\ (pc[p] \in {"TogScan", "DelScan"} /\ pc'[p] # pc[p]) =>
                IF call[p].id \in IDsOf(Live)
                THEN pc'[p] \in {"TogFlip", "DelRemove"}
                ELSE pc'[p] = "Unlock" /\ ~success'[p] /\ StoreUnchanged
          /\ (pc[p] \in {"TogFlip", "DelRemove"} /\ pc'[p] # pc[p]) =>
                pc'[p] = "Unlock" /\ success'[p]
          /\ (pc[p] = "Unlock" /\ pc'[p] # "Unlock") =>
                StoreUnchanged /\ success'[p] = success[p]
          /\ (pc[p] = "Returned" /\ pc'[p] = "Responded"
                  /\ call[p].op \in {"ToggleTask", "DeleteTask"}) =>
                /\ success[p] = expect[p].ok
                /\ resp'[p] = Response(200, "", SuccessJSON(success[p]))
                /\ StoreUnchanged]_vars

\* with task 1 live, one goroutine has been answered success false and the
\* other success true to a toggle or a delete
C17_Witness ==
    \E p, q \in Procs :
        /\ resp[p] = Response(200, "", SuccessJSON(FALSE))
        /\ resp[q] = Response(200, "", SuccessJSON(TRUE))
        /\ IDsOf(Live) = {1}

\* C18: a POST to the create handler with a parseable JSON body and a
\* non-empty title calls create with that title; the task is appended at the
\* end of the collection, and the answer is 200 with success true and the
\* task: the ID the store assigned, the title given, completed false. Under
\* any interleaving the IDs in the answers are pairwise distinct.
C18_Create ==
    /\ [][\A p \in Procs :
             /\ (Enters(p, "AddTaskHandler") /\ req[p].method = "POST"
                     /\ IsJSON(req[p].body)
                     /\ \E t \in Titles : TitleValues(req[p].body) = {Str(t)}) =>
                   /\ pc'[p] = "Lock"
                   /\ call'[p].op = "AddTask"
                   /\ TitleValues(req[p].body) = {Str(call'[p].title)}
             /\ (pc[p] = "AddAppend" /\ pc'[p] # "AddAppend") =>
                   /\ task[p] = Task(nextID, call[p].title, FALSE)
                   /\ Elements(heap', tasks') = Append(Live, task[p])
             /\ (pc[p] = "Returned" /\ pc'[p] = "Responded"
                     /\ call[p].op = "AddTask") =>
                   /\ task[p] = expect[p].task
                   /\ task[p].Title = call[p].title /\ ~task[p].Completed
                   /\ resp'[p] = Response(200, "",
                          [NoJSON EXCEPT !.kind = "object", !.success = TRUE,
                                         !.task = task[p]])]_vars
    /\ [](/\ \A j, k \in 1..Len(returned) :
                j # k => returned[j].id # returned[k].id
          /\ \A p, q \in Procs :
                (p # q /\ resp[p].json.task.ID # 0 /\ resp[q].json.task.ID # 0) =>
                    resp[p].json.task.ID # resp[q].json.task.ID)

\* two POSTs overlapped: one has been answered task 1 with title b, the
\* other, whose create was called before the first returned, has built task
\* 2 with title a and appended it
C18_Witness ==
    \E p, q \in Procs :
        /\ resp[p].status = 200 /\ resp[p].json.task = Task(1, "b", FALSE)
        /\ pc[q] = "Unlock" /\ task[q] = Task(2, "a", FALSE) /\ seen[q] = 0
        /\ Len(Live) = 2 /\ Live[2] = task[q]

\* C19: a GET handed to the list handler is answered 200 with a JSON array:
\* the live tasks, in insertion order, as the collection stood when the list
\* took effect; with no task live the body is the empty array, and no answer
\* is ever null.
C19_List ==
    /\ [][\A p \in Procs :
             /\ (Enters(p, "GetTasksHandler") /\ req[p].method = "GET") =>
                   pc'[p] = "RLock" /\ call'[p].op = "GetTasks"
             /\ (pc[p] = "RUnlock" /\ pc'[p] # "RUnlock") =>
                   expect'[p].list = seq.tasks
             /\ (pc[p] = "Returned" /\ pc'[p] = "Responded"
                     /\ call[p].op = "GetTasks") =>
                   /\ resp'[p].status = 200
                   /\ resp'[p].json.kind = "array"
                   /\ resp'[p].json.list = expect[p].list]_vars
    /\ [](/\ (\A p \in Procs : ~InWrite(p)) => Live = seq.tasks
          /\ \A j, k \in 1..Len(seq.tasks) :
                j < k => seq.tasks[j].ID < seq.tasks[k].ID
          /\ \A p \in Procs : resp[p].json.kind # "null")

\* the list was answered [] after the only task created had been deleted
C19_Witness ==
    \E p \in Procs :
        /\ resp[p] = Response(200, "", [NoJSON EXCEPT !.kind = "array"])
        /\ nextID = 2 /\ ndeletes = 1 /\ Len(Live) = 0 /\ nreqs = 3

\* C20: every request is handled per request: whatever its method, path and
\* body, its handler finishes with a response of status 200, 400 or 405 and
\* never terminates abnormally; a request that fails leaves the lock and the
\* store as they were, so later requests are served against an unchanged
\* store.
C20_HandledPerRequest ==
    /\ [](\A p \in Procs :
             /\ pc[p] # "Panicked"
             /\ pc[p] = "Responded" => resp[p].status \in {200, 400, 405})
    /\ [][\A p \in Procs :
             (pc[p] \in Handlers /\ pc'[p] \in {"Responded", "Panicked"}) =>
                 StoreUnchanged /\ mutex' = mutex]_vars

\* goroutine p is handed a request
Receives(p) == req[p] = NoRequest /\ req'[p] # NoRequest

\* C21: requests under /api/tasks/ are dispatched on the path suffix alone: to
\* the toggle handler if and only if the path ends with /toggle, whatever the
\* method, and to the delete handler otherwise; so a DELETE on a path ending
\* with /toggle is answered 405 and deletes nothing, and a PUT on
\* /api/tasks/{id} is answered 405 and toggles nothing.
C21_SuffixDispatch ==
    [][\A p \in Procs :
          /\ (Receives(p) /\ UnderApiTasks(req'[p].path)) =>
                pc'[p] = IF EndsWithToggle(req'[p].path)
                         THEN "ToggleTaskHandler" ELSE "DeleteTaskHandler"
          /\ (Enters(p, "ToggleTaskHandler") /\ req[p].method = "DELETE") =>
                Refused(p, 405) /\ ndeletes' = ndeletes
          /\ (Enters(p, "DeleteTaskHandler") /\ req[p].method = "PUT") =>
                Refused(p, 405)]_vars

\* with task 1 live and not completed, a PUT on /api/tasks/1 stands at the top
\* of the delete handler, and the other goroutine has been answered 405
C21_Witness ==
    \E p, q \in Procs :
        /\ pc[p] = "DeleteTaskHandler"
        /\ req[p] = Request("PUT", ApiTasksSlash \o <<"1">>, <<>>)
        /\ resp[q].status = 405
        /\ Len(Live) = 1 /\ Live[1].ID = 1 /\ ~Live[1].Completed

\* C22: GET / is answered 200 with the index page when static/index.html is
\* present and 404 when it is missing, and in both cases the store is
\* unchanged.
C22_IndexPage ==
    [][\A p \in Procs :
          (Enters(p, "homeHandler") /\ req[p].method = "GET"
               /\ req[p].path = Root) =>
              /\ pc'[p] = "Responded"
              /\ resp'[p] = IF "index.html" \in static
                            THEN Response(200, "", [NoJSON EXCEPT !.kind = "file"])
                            ELSE Response(404, "404 page not found", NoJSON)
              /\ StoreUnchanged
              /\ mutex' = mutex /\ ncalls' = ncalls]_vars

\* with one task live, one goroutine has been answered the page and the other
\* 404, the file having gone in between
C22_Witness ==
    \E p, q \in Procs :
        /\ resp[p] = Response(200, "", [NoJSON EXCEPT !.kind = "file"])
        /\ resp[q].status = 404
        /\ static = {} /\ Len(Live) = 1

\* C23: on the exact path /api/tasks the dispatcher sends GET to the list
\* handler and POST to the create handler, which call list and create and no
\* other store operation, and it answers every other method with 405 without
\* calling any store operation.
C23_MethodDispatch ==
    [][\A p \in Procs :
          /\ (Receives(p) /\ req'[p].path = ApiTasks /\ Serve(p)) =>
                pc'[p] = CASE req'[p].method = "GET" -> "GetTasksHandler"
                           [] req'[p].method = "POST" -> "AddTaskHandler"
                           [] OTHER -> "MethodNotAllowed"
          /\ Enters(p, "MethodNotAllowed") =>
                /\ req[p].path = ApiTasks /\ req[p].method \notin {"GET", "POST"}
                /\ Refused(p, 405)
          /\ (Enters(p, "GetTasksHandler") /\ req[p].method = "GET") =>
                call'[p].op = "GetTasks" /\ ncalls' = ncalls + 1
          /\ (Enters(p, "AddTaskHandler") /\ req[p].method = "POST") =>
                \/ Refused(p, 400)
                \/ call'[p].op = "AddTask" /\ ncalls' = ncalls + 1]_vars

\* a DELETE on /api/tasks stands at the else branch of the route, its
\* goroutine answered 200 before, a PUT answered 405, a task live, and one
\* store call made so far
C23_Witness ==
    \E p, q \in Procs :
        /\ pc[p] = "MethodNotAllowed"
        /\ req[p] = Request("DELETE", ApiTasks, <<>>)
        /\ resp[q] = Response(405, "Method not allowed", NoJSON)
        /\ Len(Live) = 1 /\ ncalls = 1 /\ nreqs = 3

\* C24: in every state reachable through HTTP requests alone, every live task
\* has a non-empty title: no create is called with the empty title, and the
\* collection holds no task without one.
C24_TitlesNonEmpty ==
    /\ \A k \in 1..Len(Live) : Live[k].Title # ""
    /\ \A p \in Procs : call[p].op = "AddTask" => call[p].title # ""
    /\ \A k \in 1..Len(returned) : returned[k].title # ""

\* two tasks are live, titled b and a, and the third request, a POST with
\* the empty title, has been answered "Title is required"
C24_Witness ==
    \E p \in Procs :
        /\ resp[p] = Response(400, "Title is required", NoJSON)
        /\ Len(Live) = 2 /\ Live[1].Title = "b" /\ Live[2].Title = "a"
        /\ nreqs = 3

\* the task of ts with the ID
TaskOf(ts, id) == ts[CHOOSE k \in 1..Len(ts) : ts[k].ID = id]

\* ts without the tasks whose ID is in ids, the rest in the order they had
RECURSIVE Without(_, _)
Without(ts, ids) ==
    IF Len(ts) = 0 THEN <<>>
    ELSE IF Head(ts).ID \in ids THEN Without(Tail(ts), ids)
    ELSE <<Head(ts)>> \o Without(Tail(ts), ids)

\* the IDs a create has returned that the collection, as the calls that have
\* returned left it, no longer holds: those a delete has removed
Gone == {returned[k].id : k \in 1..Len(returned)} \ IDsOf(seq.tasks)

\* C25: task lifecycle. From its creation until its deletion a task keeps its
\* ID, its title and its place among the other tasks, and its completed flag
\* changes only in the flip of a toggle called with its own ID; a task leaves
\* the collection only in the removal of a delete called with its own ID; and
\* once a delete of an ID has returned true, every toggle and delete of that ID
\* finds nothing and returns false and no list copies a task with that ID.
C25_Lifecycle ==
    [][LET after == Elements(heap', tasks')
           left == IDsOf(Live) \ IDsOf(after)
           new == IDsOf(after) \ IDsOf(Live)
       IN /\ (tasks' = tasks /\ heap' = heap) \/ after = Live \/
                /\ \A id \in IDsOf(Live) \cap IDsOf(after) :
                      /\ TaskOf(after, id).Title = TaskOf(Live, id).Title
                      /\ TaskOf(after, id).Completed # TaskOf(Live, id).Completed =>
                            \E p \in Procs :
                                /\ pc[p] = "TogFlip" /\ pc'[p] = "Unlock"
                                /\ call[p] = [op |-> "ToggleTask", title |-> "",
                                              id |-> id]
                /\ \A id \in left :
                      \E p \in Procs :
                          /\ pc[p] = "DelRemove" /\ pc'[p] = "Unlock"
                          /\ call[p] = [op |-> "DeleteTask", title |-> "", id |-> id]
                /\ [k \in 1..(Len(Live) - Cardinality(left)) |->
                        Without(Live, left)[k].ID]
                      = [k \in 1..(Len(after) - Cardinality(new)) |->
                            Without(after, new)[k].ID]
          /\ \A p \in Procs :
                /\ (pc[p] \in {"TogScan", "DelScan"} /\ pc'[p] # pc[p]
                        /\ call[p].id \in Gone) =>
                      pc'[p] = "Unlock" /\ ~success'[p]
                /\ (pc[p] = "Unlock" /\ pc'[p] = "Returned"
                        /\ call[p].op \in {"ToggleTask", "DeleteTask"}) =>
                      success'[p] = success[p]
                /\ (pc[p] = "RUnlock" /\ pc'[p] = "Returned") =>
                      IDsOf(Elements(heap', tasksCopy'[p])) \cap Gone = {}]_vars

\* task 1 was created and deleted; after that a toggle of 1 has returned false
\* and a list has returned without it
C25_Witness ==
    \E p, q \in Procs :
        /\ Got(p, "ToggleTask") /\ call[p].id = 1 /\ ~success[p]
        /\ Got(q, "GetTasks") /\ 1 \notin IDsOf(Elements(heap, tasksCopy[q]))
        /\ Gone = {1} /\ ncalls = 4 /\ ndeletes = 1

\* C26: for any interleaving of concurrent deletes of k pairwise distinct live
\* IDs on a store holding n tasks, with no other operation running, every call
\* returns true, and whenever no delete is inside its critical section (so also
\* when all have returned) the store holds exactly the tasks it began with
\* that no returned delete targeted, in their original order and with their
\* fields unchanged.
C26_ConcurrentDeletes ==
    /\ \A p \in Workers : Got(p, "DeleteTask") => success[p]
    /\ (\A p \in Workers : ~InWrite(p)) =>
          Live = Without(before, {call[p].id : p \in {q \in Workers : pc[q] = "Returned"}})
    /\ (\A p \in Workers : AtRest(p)) =>
          /\ Live = Without(before, Targeted)
          /\ Len(Live) = Len(before) - ndeletes

\* on a store of four tasks, the second and the fourth toggled, three deletes
\* were called; those of 1 and 3 have returned and that of 4 waits for the
\* lock: tasks 2 and 4 are left, as they were
C26_Witness ==
    \E p, q, r \in Workers :
        /\ Len(before) = 4
        /\ Got(p, "DeleteTask") /\ call[p].id = 1
        /\ Got(q, "DeleteTask") /\ call[q].id = 3
        /\ pc[r] = "Lock" /\ call[r].id = 4
        /\ Live = <<Task(2, "b", TRUE), Task(4, "b", TRUE)>>

\* the handler of p is reading its request or writing its response: it
\* stands before its first statement (method check, decoding of the body, the
\* error answers) or the store's method has returned to it and it is about to
\* encode the result
AtIO(p) == pc[p] \in Handlers \/ (pc[p] = "Returned" /\ req[p] # NoRequest)

\* C27: no handler performs request or response I/O while the store lock is
\* held. A handler reading its request or writing its response does not hold
\* the write lock and is not among the readers counted in; so whenever every
\* goroutine is outside the store's methods or only about to take the lock,
\* the lock is free, and a slow client delays no store operation.
C27_NoIOUnderLock ==
    /\ \A p \in Procs : AtIO(p) => mutex.w # p
    /\ mutex.w # 0 => (pc[mutex.w] = "LockWait" \/ InWrite(mutex.w))
    /\ mutex.readerCount =
          Cardinality({p \in Procs : pc[p] = "RLockWait" \/ InRead(p)})
    /\ (\A p \in Procs : AtRest(p) \/ pc[p] \in {"Lock", "RLock"}) =>
          mutex = NewMutex

\* the list handler is about to encode a list of one task while the other
\* goroutine's create is inside the store, appending
C27_Witness ==
    \E p, q \in Procs :
        /\ AtIO(p) /\ pc[p] = "Returned" /\ call[p].op = "GetTasks"
        /\ tasksCopy[p].len = 1
        /\ pc[q] = "AddAppend" /\ mutex.w = q

\* C28: the index handler of the single-file variant only reads the store.
\* Serving GET / it calls list once and no create, toggle or delete; none of
\* its steps changes the store; and the page it writes lists exactly the tasks
\* of one list snapshot: the collection as it stood when that list took
\* effect.
C28_PageReadsOnly ==
    [][\A p \in Procs :
          /\ Enters(p, "homeHandlerTemplate") =>
                /\ pc'[p] = "RLock"
                /\ call'[p] = [op |-> "GetTasks", title |-> "", id |-> 0]
                /\ ncalls' = ncalls + 1
                /\ ncreates' = ncreates /\ ndeletes' = ndeletes
          /\ (req[p].path = Root /\ pc'[p] # pc[p]) =>
                /\ StoreUnchanged
                /\ pc[p] # "homeHandlerTemplate" => ncalls' = ncalls
                /\ pc'[p] \in {"RLock", "RLockWait", "GetMake", "GetCopy",
                               "RUnlock", "Returned", "Responded"}
          /\ (req[p].path = Root /\ pc[p] = "Returned" /\ pc'[p] # pc[p]) =>
                resp'[p] = Response(200, "",
                    [NoJSON EXCEPT !.kind = "html", !.list = expect[p].list])
          /\ (req[p].path = Root /\ pc[p] = "RUnlock" /\ pc'[p] # pc[p]) =>
                expect'[p].list = seq.tasks /\ Live = seq.tasks]_vars

\* the page was written with task 1, titled a and completed, as its only
\* item, after a create and a toggle
C28_Witness ==
    \E p \in Procs :
        /\ resp[p] = Response(200, "",
               [NoJSON EXCEPT !.kind = "html", !.list = <<Task(1, "a", TRUE)>>])
        /\ nreqs = 3

\* C29: a snapshot list has returned is never changed by later store
\* operations. While its caller keeps it, no step of any create, toggle or
\* delete (the in-place shift of a delete in the middle of the collection
\* included) changes its slice header or its elements: it holds the tasks,
\* fields and order it held when it was returned, in an array of its own.
C29_SnapshotKept ==
    /\ [](\A p \in Procs :
             Got(p, "GetTasks") =>
                 /\ Elements(heap, tasksCopy[p]) = expect[p].list
                 /\ tasksCopy[p].len > 0 => tasksCopy[p].arr # tasks.arr)
    /\ [][\A p \in Procs :
             (Got(p, "GetTasks") /\ pc'[p] = "Returned") =>
                 /\ tasksCopy'[p] = tasksCopy[p]
                 /\ Elements(heap', tasksCopy'[p]) = Elements(heap, tasksCopy[p])
                 /\ expect'[p] = expect[p]]_vars

\* the keeper holds the three tasks the store began with; since then task 2,
\* in the middle, was deleted, task 3 toggled and a fourth task created, all
\* in the store's first array
C29_Witness ==
    /\ Got(Keeper, "GetTasks")
    /\ Len(before) = 3
    /\ Elements(heap, tasksCopy[Keeper]) = before
    /\ tasks = Slice(FillStore(before).slice.arr, 3, 4)
    /\ <<Live[1].ID, Live[2].ID, Live[3].ID>> = <<1, 3, 4>>
    /\ Live[2].Completed
    /\ \A p \in Procs : AtRest(p)

\* a list of tasks in which every task has a larger ID than all those before it
Ascending(l) == \A i, j \in 1..Len(l) : i < j => l[i].ID < l[j].ID

\* C30: in every reachable state, also in the middle of a call, the collection
\* is sorted by strictly increasing ID, and so every list a list call returns
\* is strictly ascending by ID, after any interleaving of create, toggle and
\* delete calls.
C30_AscendingByID ==
    /\ Ascending(Live)
    /\ \A p \in Procs :
          Got(p, "GetTasks") => Ascending(Elements(heap, tasksCopy[p]))

\* three creates with a delete of task 1 between the second and the third:
\* the collection holds tasks 2 and 3, in this order
C30_Witness ==
    /\ Len(returned) = 3
    /\ Len(Live) = 2
    /\ <<Live[1].ID, Live[2].ID>> = <<2, 3>>
    /\ nextID = 4
    /\ \A p \in Procs : AtRest(p)

\* the positions of the collection at which the task with this ID stands
Places(ts, id) == {k \in 1..Len(ts) : ts[k].ID = id}

\* C31: for any interleaving of N concurrent toggles of one live task that no
\* delete targets (deletes of other tasks may run among them), every toggle
\* returns true; the collection holds that task exactly once at every moment,
\* with its title; and once all calls have returned its completed flag
\* differs from the initial one if and only if N is odd.
C31_NoToggleLost ==
    /\ \A p \in Workers : Got(p, "ToggleTask") => success[p]
    /\ \A id \in Toggled :
          /\ Cardinality(Places(Live, id)) = 1
          /\ TaskOf(Live, id).Title = TaskOf(before, id).Title
          /\ (\A p \in Workers : AtRest(p)) =>
                (TaskOf(Live, id).Completed # TaskOf(before, id).Completed
                    <=> (ncalls - ndeletes) % 2 = 1)

\* three toggles of task 2 of three have returned, and a delete of task 1
\* among them: task 2 now stands first and its flag is the other one
C31_Witness ==
    /\ Len(before) = 3
    /\ Toggled = {2}
    /\ ncalls = 4 /\ ndeletes = 1
    /\ \A p \in Workers : pc[p] = "Returned"
    /\ Live[1].ID = 2
    /\ Live[1].Completed # before[2].Completed

\* the goroutines whose delete has returned true
Winners == {p \in Workers : Got(p, "DeleteTask") /\ success[p]}

\* C32: for any interleaving of two or more concurrent deletes of the same
\* live ID, at most one call ever returns true; as soon as one call has
\* returned, exactly one has returned true and every other returned call has
\* returned false; and the collection is the initial one or, from the moment
\* of the removal on, the initial one without that single task.
C32_DeleteSameOnce ==
    /\ Cardinality(Winners) <= 1
    /\ (\E p \in Workers : Got(p, "DeleteTask")) =>
          /\ Cardinality(Winners) = 1
          /\ Live = Without(before, Targeted)
          /\ Len(Live) = Len(before) - 1
    /\ Live \in {before, Without(before, Targeted)}

\* three deletes of task 2 of three have returned, one of them with true:
\* tasks 1 and 3 are left
C32_Witness ==
    /\ Len(before) = 3
    /\ Targeted = {2}
    /\ ndeletes = 3
    /\ \A p \in Workers : Got(p, "DeleteTask")
    /\ \E p \in Workers : success[p] /\ \A q \in Workers \ {p} : ~success[q]
    /\ Live = <<before[1], before[3]>>

\* the input of request r that handler h would refuse with a 400 had the
\* request come with the handler's own method
BadInput(h, r) ==
    CASE h = "AddTaskHandler" ->
             \/ ~IsJSON(r.body)
             \/ TitleValues(r.body) \subseteq {Str("")}
      [] h = "ToggleTaskHandler" -> Atoi(IDSegment(r.path)).err
      [] h = "DeleteTaskHandler" -> Atoi(Trailing(r.path)).err
      [] OTHER -> FALSE

\* C33: in every handler the method check comes first: a request with another
\* method than the handler's own whose ID segment is not an integer, or whose
\* body is not parseable JSON or has no title, is answered 405 "Method not
\* allowed" with the store untouched; and a 400 is written only by a handler
\* serving a request that carries its own method.
C33_MethodCheckFirst ==
    [][\A p \in Procs :
          /\ \A h \in DOMAIN OwnMethod :
                (Enters(p, h) /\ req[p].method # OwnMethod[h] /\ BadInput(h, req[p])) =>
                    /\ Refused(p, 405)
                    /\ resp'[p].text = "Method not allowed"
          /\ (resp[p].status # 400 /\ resp'[p].status = 400) =>
                /\ pc[p] \in DOMAIN OwnMethod
                /\ req[p].method = OwnMethod[pc[p]]]_vars

\* the first request has been answered 405, and the create handler now
\* stands before the second, a PUT whose body is no JSON
C33_Witness ==
    \E p, q \in Procs :
        /\ p # q
        /\ resp[q] = Response(405, "Method not allowed", NoJSON)
        /\ pc[p] = "AddTaskHandler"
        /\ req[p] = Request("PUT", ApiTasks, <<Junk>>)
        /\ nreqs = 2

\* p has called Lock() and has not got the lock yet
WaitsToWrite(p) == pc[p] \in {"Lock", "LockWait"}

\* C34: with list calls arriving and overlapping without end, under fair
\* scheduling a create, toggle or delete that waits for the exclusive lock
\* eventually holds it; for while it waits behind the readers, the readers
\* inside or woken to go inside are exactly those it counted when it
\* announced itself, and a list call that arrives from then on is put to
\* sleep and enters only once that writer has released the lock.
C34_WriterNotStarved ==
    /\ \A w \in Writing : WaitsToWrite(w) ~> InWrite(w)
    /\ [](\A w \in Writing :
             pc[w] = "LockWait" =>
                 Cardinality({p \in Listers : InRead(p)}) + mutex.readerSem
                     = mutex.readerWait)
    /\ [][\A p \in Listers :
             /\ (pc[p] = "RLock" /\ pc'[p] # "RLock"
                     /\ \E w \in Writing : pc[w] = "LockWait" \/ InWrite(w)) =>
                   pc'[p] = "RLockWait"
             /\ (pc[p] = "RLockWait" /\ pc'[p] # "RLockWait") =>
                   \A w \in Writing : ~InWrite(w)]_vars

\* the writer sleeps until the one lister inside leaves, and the other
\* lister, who came after the writer, sleeps behind it
C34_Witness ==
    \E w \in Writing, p, q \in Listers :
        /\ pc[w] = "LockWait" /\ mutex.readerWait = 1
        /\ InRead(p)
        /\ pc[q] = "RLockWait" /\ mutex.readerSem = 0

====
